---------------------------- MODULE Spec2Model ----------------------------
(***************************************************************************)
(* Route ordering (nearest neighbour + 2-opt), the constrained start/end   *)
(* selector and the day-packing engine of the trip planner.                *)
(*                                                                         *)
(* Python lists of indices are sequences (list position p is sequence      *)
(* position p + 1); matrices are functions over 0..n-1, as indexed by the  *)
(* code.  Durations are whole numbers, so the 1e-9 epsilon of the 2-opt    *)
(* acceptance test is the strict comparison of integers.                   *)
(***************************************************************************)
EXTENDS Integers, Sequences, FiniteSets, TLC

VARIABLES opt, sel, pack, osrm, db, calls

vars == <<opt, sel, pack, osrm, db, calls>>

(***************************************************************************)
(* Bounds of the model.                                                    *)
(***************************************************************************)
MaxN == 4
MaxSeed == 60
MaxCost == 5
MaxSelSeed == 5
MaxCand == 2
MaxStops == 6
MaxGroupStops == 5
MaxAnyStops == 4
MaxCoords == 102
MaxRows == 3
MaxLiveSeed == 6
MaxLiveStops == 4
MaxLocations == 4

(***************************************************************************)
(* Python's None, and numpy's +inf (the sentinel a missing cell becomes).  *)
(***************************************************************************)
None == -1
Inf == -2

max_iter == 2000

Idle == [pc |-> "idle"]

(***************************************************************************)
(* Input matrices: the 4-stop scenario matrix and a family of matrices     *)
(* with entries in 0..MaxCost (asymmetric, with ties and zero edges).      *)
(***************************************************************************)
ScenarioMatrix ==
    LET m == << <<0, 10, 15, 20>>, <<10, 0, 35, 25>>,
                <<15, 35, 0, 30>>, <<20, 25, 30, 0>> >>
    IN  [i \in 0..3 |-> [j \in 0..3 |-> m[i + 1][j + 1]]]

Cell(seed, i, j) ==
    IF i = j THEN 0
    ELSE ((seed + 1) * (7 * i + 3 * j + 1) + (seed \div 3) * (i + 1) * (j + 2)
          + (seed \div 5) * j) % (MaxCost + 1)

FamilyMatrix(seed, n) == [i \in 0..(n - 1) |-> [j \in 0..(n - 1) |-> Cell(seed, i, j)]]

FullMatrices ==
    {ScenarioMatrix} \cup {FamilyMatrix(seed, n) : seed \in 0..MaxSeed, n \in 0..MaxN}

Size(f) == Cardinality(DOMAIN f)

(***************************************************************************)
(* Defective raw matrices: one cell missing (None), one row one cell short *)
(* (ragged), one column too many, one row dropped.                         *)
(***************************************************************************)
WithHole(m, a, b) == [m EXCEPT ![a][b] = None]

ShortRow(m, a) ==
    [i \in DOMAIN m |-> IF i = a THEN [j \in 0..(Size(m[i]) - 2) |-> m[i][j]] ELSE m[i]]

ExtraColumn(m) == [i \in DOMAIN m |-> [j \in 0..Size(m) |-> IF j < Size(m) THEN m[i][j] ELSE 1]]

DroppedRow(m) == [i \in 0..(Size(m) - 2) |-> m[i]]

RawMatrices(m) ==
    {m} \cup {WithHole(m, a, b) : a \in DOMAIN m, b \in DOMAIN m}
        \cup {ShortRow(m, a) : a \in DOMAIN m}
        \cup (IF Size(m) > 0 THEN {ExtraColumn(m), DroppedRow(m)} ELSE {})

(***************************************************************************)
(* _to_cost_matrix: np.array(matrix, dtype=float), then nan -> inf.        *)
(* np.array raises on rows of different lengths; the empty list gives a    *)
(* one-dimensional array of shape (0,).                                    *)
(***************************************************************************)
Rectangular(matrix) == \A i, k \in DOMAIN matrix : Size(matrix[i]) = Size(matrix[k])

_to_cost_matrix(matrix) ==
    IF ~Rectangular(matrix)
    THEN [raised |-> TRUE, ndim |-> 0, rows |-> 0, cols |-> 0, cell |-> matrix]
    ELSE IF Size(matrix) = 0
    THEN [raised |-> FALSE, ndim |-> 1, rows |-> 0, cols |-> 0, cell |-> matrix]
    ELSE [raised |-> FALSE, ndim |-> 2, rows |-> Size(matrix), cols |-> Size(matrix[0]),
          cell |-> [i \in DOMAIN matrix |->
                      [j \in DOMAIN matrix[i] |->
                          IF matrix[i][j] = None THEN Inf ELSE matrix[i][j]]]]

\* Mutant: the diagonal is not looked at.
AnyInf_off_diagonal(arr) ==
    \E i \in DOMAIN arr.cell : \E j \in DOMAIN arr.cell[i] : i # j /\ arr.cell[i][j] = Inf

\* np.isinf(cost).any()
AnyInf(arr) == \E i \in DOMAIN arr.cell : \E j \in DOMAIN arr.cell[i] : arr.cell[i][j] = Inf

\* TRUE when validate_full_matrix returns, FALSE when it raises ValueError.
validate_full_matrix(arr) ==
    IF arr.ndim # 2 \/ arr.rows # arr.cols THEN FALSE
    ELSE IF arr.rows = 0 THEN TRUE
    ELSE ~AnyInf(arr)

(***************************************************************************)
(* path_cost: the sum of the consecutive edge costs of an open path.       *)
(***************************************************************************)
RECURSIVE EdgeSum(_, _, _)
EdgeSum(cost, order, p) ==
    IF p >= Len(order) THEN 0
    ELSE cost[order[p]][order[p + 1]] + EdgeSum(cost, order, p + 1)

path_cost(cost, order) == IF Len(order) <= 1 THEN 0 ELSE EdgeSum(cost, order, 1)

(***************************************************************************)
(* choose_central_start and the start choice of                            *)
(* optimize_order_from_durations: the first index of minimum row sum       *)
(* (np.argmin, and min over an ascending list, return the first minimum).  *)
(***************************************************************************)
RECURSIVE RowSumFrom(_, _, _)
RowSumFrom(cost, i, j) ==
    IF j >= Size(cost) THEN 0 ELSE cost[i][j] + RowSumFrom(cost, i, j + 1)

row_sums(cost) == [i \in DOMAIN cost |-> RowSumFrom(cost, i, 0)]

FirstMin(candidates, key) ==
    CHOOSE i \in candidates :
        /\ \A k \in candidates : key[i] <= key[k]
        /\ \A k \in candidates : key[k] = key[i] => i <= k

choose_central_start(cost) ==
    IF Size(cost) = 0 THEN 0 ELSE FirstMin(DOMAIN cost, row_sums(cost))

Clamp(x, n) == IF x < 0 THEN 0 ELSE IF x > n - 1 THEN n - 1 ELSE x

(***************************************************************************)
(* nearest_neighbor_path.  The next node is min(choices, key=cost) over a  *)
(* Python set: the minimum cost is determined, the order in which a set    *)
(* yields nodes of equal cost is not, so a step may take any node of       *)
(* minimum cost.                                                           *)
(***************************************************************************)
NNEnd(n, start, end) ==
    IF end = None THEN None
    ELSE IF Clamp(end, n) = Clamp(start, n) THEN None ELSE Clamp(end, n)

Choices(unvisited, end) ==
    IF end # None /\ end \in unvisited /\ Cardinality(unvisited) > 1
    THEN unvisited \ {end}
    ELSE unvisited

MinChoices(cost, current, choices) ==
    {j \in choices : \A k \in choices : cost[current][j] <= cost[current][k]}

Visit(unvisited, next_node) == unvisited \ {next_node}

\* Mutant: the start is not removed from the unvisited set.
InitialUnvisited_keeps_start(n, start) == 0..(n - 1)

\* unvisited = set(range(n)); unvisited.remove(start)
InitialUnvisited(n, start) == (0..(n - 1)) \ {start}

RECURSIVE NNPathsFrom(_, _, _, _)
NNPathsFrom(cost, end, order, unvisited) ==
    IF unvisited = {} THEN {order}
    ELSE UNION {NNPathsFrom(cost, end, Append(order, j), Visit(unvisited, j)) :
                   j \in MinChoices(cost, order[Len(order)], Choices(unvisited, end))}

nearest_neighbor_path(cost, start, end) ==
    IF Size(cost) = 0 THEN {<<>>}
    ELSE NNPathsFrom(cost, NNEnd(Size(cost), start, end),
                     <<Clamp(start, Size(cost))>>,
                     InitialUnvisited(Size(cost), Clamp(start, Size(cost))))

(***************************************************************************)
(* two_opt_improve: a scan tries the reversals (i..k), i ascending then k  *)
(* ascending, and takes the first that lowers the path cost.               *)
(***************************************************************************)
\* Mutant: the scan starts at position 0 whatever fixed_start is.
start_i_always_zero(fixed_start) == 0

start_i(fixed_start) == IF fixed_start THEN 1 ELSE 0

\* Mutant: the reversed segment may reach the last position.
ScanPairs_to_last(n, si) == {pr \in (si..(n - 2)) \X (1..(n - 1)) : pr[2] >= pr[1] + 1}

\* i in range(start_i, n - 2), k in range(i + 1, n - 1)
ScanPairs(n, si) == {pr \in (si..(n - 3)) \X (1..(n - 2)) : pr[2] >= pr[1] + 1}

\* best[:i] + reversed(best[i:k+1]) + best[k+1:]
Candidate(best, i, k) ==
    [p \in 1..Len(best) |-> IF p >= i + 1 /\ p <= k + 1 THEN best[i + k + 2 - p] ELSE best[p]]

\* Mutant: the acceptance test compares the wrong way round.
Improves_reversed(cand_cost, best_cost) == cand_cost > best_cost

\* cand_cost + 1e-9 < best_cost
Improves(cand_cost, best_cost) == cand_cost < best_cost

ImprovingPairs(cost, best, best_cost, fixed_start) ==
    {pr \in ScanPairs(Len(best), start_i(fixed_start)) :
        Improves(path_cost(cost, Candidate(best, pr[1], pr[2])), best_cost)}

\* The scan going on to the last improving reversal instead of breaking.
FirstPair_last_found(pairs) ==
    CHOOSE pr \in pairs :
        \A q \in pairs : q[1] < pr[1] \/ (q[1] = pr[1] /\ q[2] <= pr[2])

\* The pair at which the two for loops break (lines 129-133): the first
\* improving pair, i ascending then k ascending.
FirstPair(pairs) ==
    CHOOSE pr \in pairs :
        \A q \in pairs : pr[1] < q[1] \/ (pr[1] = q[1] /\ pr[2] <= q[2])

\* One pass of the while body: the state after the scan.
Scan(cost, best, best_cost, fixed_start) ==
    LET pairs == ImprovingPairs(cost, best, best_cost, fixed_start)
    IN  IF pairs = {}
        THEN [improved |-> FALSE, best |-> best, best_cost |-> best_cost]
        ELSE LET pr == FirstPair(pairs)
                 candidate == Candidate(best, pr[1], pr[2])
             IN  [improved |-> TRUE, best |-> candidate,
                  best_cost |-> path_cost(cost, candidate)]

RECURSIVE TwoOptLoop(_, _, _, _, _, _)
TwoOptLoop(cost, best, best_cost, fixed_start, improved, iters) ==
    IF ~(improved /\ iters < max_iter) THEN best
    ELSE LET s == Scan(cost, best, best_cost, fixed_start)
         IN  TwoOptLoop(cost, s.best, s.best_cost, fixed_start, s.improved, iters + 1)

two_opt_improve(cost, order, fixed_start) ==
    IF Len(order) <= 3 THEN order
    ELSE TwoOptLoop(cost, order, path_cost(cost, order), fixed_start, TRUE, 0)

(***************************************************************************)
(* optimize_order_from_durations: the anchors it resolves, and its results *)
(* (one per way the nearest-neighbour ties can fall).                      *)
(***************************************************************************)
ResolveAnchors(cost, fixed_start_index, fixed_end_index) ==
    LET n == Size(cost)
        end0 == IF fixed_end_index # None THEN Clamp(fixed_end_index, n) ELSE None
        start == IF fixed_start_index = None
                 THEN IF end0 = None THEN choose_central_start(cost)
                      ELSE FirstMin(DOMAIN cost \ {end0}, row_sums(cost))
                 ELSE Clamp(fixed_start_index, n)
    IN  [start |-> start,
         end |-> IF end0 # None /\ end0 = start THEN None ELSE end0,
         fixed_start |-> fixed_start_index # None]

Raised == [raised |-> TRUE, order |-> <<>>, total_cost |-> 0]

OptimizeResult(cost, order) ==
    [raised |-> FALSE, order |-> order, total_cost |-> path_cost(cost, order)]

RangeOrder(n) == [p \in 1..n |-> p - 1]

optimize_order_from_durations(durations_s, fixed_start_index, fixed_end_index) ==
    LET arr == _to_cost_matrix(durations_s)
    IN  IF arr.raised \/ ~validate_full_matrix(arr) THEN {Raised}
        ELSE IF arr.rows <= 1
        THEN {[raised |-> FALSE, order |-> RangeOrder(arr.rows), total_cost |-> 0]}
        ELSE LET a == ResolveAnchors(arr.cell, fixed_start_index, fixed_end_index)
             IN  {OptimizeResult(arr.cell, two_opt_improve(arr.cell, nn, a.fixed_start)) :
                     nn \in nearest_neighbor_path(arr.cell, a.start, a.end)}

(***************************************************************************)
(* One call of optimize_order_from_durations, step by step.                *)
(*   call     the call is made (arguments in durations_s, fixed_*_index)   *)
(*   nn       inside the while loop of nearest_neighbor_path               *)
(*   two_opt  inside the while loop of two_opt_improve                     *)
(*   done     the call returned result;  raised: it raised ValueError      *)
(***************************************************************************)
Anchors == {None} \cup (0..(MaxN - 1))

OptCall(raw, fs, fe) ==
    [pc |-> "call", durations_s |-> raw, fixed_start_index |-> fs, fixed_end_index |-> fe,
     cost |-> <<>>, n |-> 0, start |-> None, end |-> None, fixed_start |-> FALSE,
     unvisited |-> {}, order |-> <<>>, current |-> None,
     best |-> <<>>, best_cost |-> 0, improved |-> FALSE, iters |-> 0,
     result |-> Raised]

OptInit ==
    /\ opt \in {OptCall(raw, fs, fe) :
                   raw \in UNION {RawMatrices(m) : m \in FullMatrices},
                   fs \in Anchors, fe \in Anchors}
    /\ sel = Idle
    /\ pack = Idle
    /\ osrm = Idle
    /\ db = Idle
    /\ calls = Idle

\* Lines 145-146: the conversion or the validation raises.
OptRaise ==
    /\ opt.pc = "call"
    /\ LET arr == _to_cost_matrix(opt.durations_s)
       IN  /\ arr.raised \/ ~validate_full_matrix(arr)
           /\ opt' = [opt EXCEPT !.pc = "raised"]
    /\ UNCHANGED <<sel, pack, osrm, db, calls>>

\* Lines 147-149: n <= 1 returns the trivial order.
OptTrivial ==
    /\ opt.pc = "call"
    /\ LET arr == _to_cost_matrix(opt.durations_s)
       IN  /\ ~arr.raised /\ validate_full_matrix(arr)
           /\ arr.rows <= 1
           /\ opt' = [opt EXCEPT !.pc = "done", !.cost = arr.cell, !.n = arr.rows,
                                 !.result = [raised |-> FALSE,
                                             order |-> RangeOrder(arr.rows),
                                             total_cost |-> 0]]
    /\ UNCHANGED <<sel, pack, osrm, db, calls>>

\* Lines 151-174 and 68-81: resolve the anchors, enter nearest_neighbor_path.
OptEnterNN ==
    /\ opt.pc = "call"
    /\ LET arr == _to_cost_matrix(opt.durations_s)
       IN  /\ ~arr.raised /\ validate_full_matrix(arr)
           /\ arr.rows > 1
           /\ LET a == ResolveAnchors(arr.cell, opt.fixed_start_index, opt.fixed_end_index)
                  start == Clamp(a.start, arr.rows)
              IN  opt' = [opt EXCEPT !.pc = "nn", !.cost = arr.cell, !.n = arr.rows,
                                     !.start = start,
                                     !.end = NNEnd(arr.rows, a.start, a.end),
                                     !.fixed_start = a.fixed_start,
                                     !.unvisited = InitialUnvisited(arr.rows, start),
                                     !.order = <<start>>,
                                     !.current = start]
    /\ UNCHANGED <<sel, pack, osrm, db, calls>>

\* Lines 83-93: one pass of the nearest-neighbour loop.
NNStep ==
    /\ opt.pc = "nn"
    /\ opt.unvisited # {}
    /\ \E next_node \in MinChoices(opt.cost, opt.current, Choices(opt.unvisited, opt.end)) :
          opt' = [opt EXCEPT !.unvisited = Visit(opt.unvisited, next_node),
                             !.order = Append(opt.order, next_node),
                             !.current = next_node]
    /\ UNCHANGED <<sel, pack, osrm, db, calls>>

\* Lines 95, 175 and 103-105: the path is returned; two_opt_improve returns
\* a path of at most 3 nodes as it is.
TwoOptShort ==
    /\ opt.pc = "nn"
    /\ opt.unvisited = {}
    /\ Len(opt.order) <= 3
    /\ opt' = [opt EXCEPT !.pc = "done", !.best = opt.order,
                          !.result = OptimizeResult(opt.cost, opt.order)]
    /\ UNCHANGED <<sel, pack, osrm, db, calls>>

\* Lines 95, 175 and 107-115: two_opt_improve starts from the path.
TwoOptEnter ==
    /\ opt.pc = "nn"
    /\ opt.unvisited = {}
    /\ Len(opt.order) > 3
    /\ opt' = [opt EXCEPT !.pc = "two_opt", !.best = opt.order,
                          !.best_cost = path_cost(opt.cost, opt.order),
                          !.improved = TRUE, !.iters = 0]
    /\ UNCHANGED <<sel, pack, osrm, db, calls>>

\* Lines 116-133: one pass of the while loop (a full scan, or up to the
\* first accepted reversal).
TwoOptScan ==
    /\ opt.pc = "two_opt"
    /\ opt.improved /\ opt.iters < max_iter
    /\ LET s == Scan(opt.cost, opt.best, opt.best_cost, opt.fixed_start)
       IN  opt' = [opt EXCEPT !.best = s.best, !.best_cost = s.best_cost,
                              !.improved = s.improved, !.iters = opt.iters + 1]
    /\ UNCHANGED <<sel, pack, osrm, db, calls>>

\* Lines 135 and 176.
TwoOptReturn ==
    /\ opt.pc = "two_opt"
    /\ ~(opt.improved /\ opt.iters < max_iter)
    /\ opt' = [opt EXCEPT !.pc = "done", !.result = OptimizeResult(opt.cost, opt.best)]
    /\ UNCHANGED <<sel, pack, osrm, db, calls>>

OptNext ==
    \/ OptRaise
    \/ OptTrivial
    \/ OptEnterNN
    \/ NNStep
    \/ TwoOptShort
    \/ TwoOptEnter
    \/ TwoOptScan
    \/ TwoOptReturn

SpecOpt == OptInit /\ [][OptNext]_vars

\* The calls with a matrix that has all its cells: the call runs on as long
\* as it has a step to take.
LiveMatrices ==
    {ScenarioMatrix} \cup {FamilyMatrix(seed, n) : seed \in 0..MaxLiveSeed, n \in 0..MaxN}

FullInit ==
    /\ opt \in {OptCall(m, fs, fe) : m \in LiveMatrices, fs \in Anchors, fe \in Anchors}
    /\ sel = Idle
    /\ pack = Idle
    /\ osrm = Idle
    /\ db = Idle
    /\ calls = Idle

LiveOpt == FullInit /\ [][OptNext]_vars /\ WF_vars(OptNext)

(***************************************************************************)
(* The constrained selector of optimize_trip_route (lines 478-565), for a  *)
(* trip of n >= 2 stops with coordinates whose matrix was fetched.         *)
(*   anchors  the matrix is fetched; the anchors are about to be resolved  *)
(*   loop     in the loops over start_options x end_options, at (si, ei)   *)
(*   select   the loops are over                                           *)
(*   done     result and the ordered location ids are computed             *)
(***************************************************************************)
\* rows[i]['location_id']: the ids of the trip's stops, and an id that is
\* no stop of the trip.
location_id(i) == 101 + i

NotInTrip == 999

\* id_to_index.get(int(x)) of lines 484-494.
id_to_index(n, x) ==
    IF x = None THEN None
    ELSE IF \E i \in 0..(n - 1) : location_id(i) = x
    THEN CHOOSE i \in 0..(n - 1) : location_id(i) = x
    ELSE None

\* [i for i in 0..n-1 if i in s], ascending as enumerate(rows) yields them.
RECURSIVE AscendingFrom(_, _, _)
AscendingFrom(s, i, n) ==
    IF i >= n THEN <<>>
    ELSE IF i \in s THEN <<i>> \o AscendingFrom(s, i + 1, n)
    ELSE AscendingFrom(s, i + 1, n)

\* The sets of rows a region preference can match (none without preference).
Matches(n) == {s \in SUBSET (0..(n - 1)) : Cardinality(s) <= MaxCand}

SOFT_MAX_DEGRADATION_PCT == 12

\* Mutant: a ceiling of 20% instead of 12%.
WithinCeiling_20pct(soft_cost, base_cost) == 100 * soft_cost <= 120 * base_cost

\* best_soft.total_cost <= base.total_cost * (1.0 + SOFT_MAX_DEGRADATION)
WithinCeiling(soft_cost, base_cost) ==
    100 * soft_cost <= (100 + SOFT_MAX_DEGRADATION_PCT) * base_cost

\* Lines 556-562.
SelectResult(base, best_soft) ==
    IF best_soft # <<>> /\ base.total_cost > 0
    THEN IF WithinCeiling(best_soft[1].total_cost, base.total_cost)
         THEN best_soft[1] ELSE base
    ELSE base

SelCall(m, sid, eid) ==
    [pc |-> "anchors", n |-> Size(m), durations_s |-> m,
     start_location_id |-> sid, end_location_id |-> eid,
     hard_start_idx |-> None, hard_end_idx |-> None,
     start_options |-> <<>>, end_options |-> <<>>,
     base |-> Raised, best_soft |-> <<>>, si |-> 1, ei |-> 1,
     evaluated |-> <<>>, result |-> Raised, optimized_order |-> <<>>]

\* The matrices of the selector's runs: the scenario matrix, two stops at the
\* same place, and family matrices made free of ties within a row (measured
\* durations; ties are the subject of SpecOpt).
TieFree(m) ==
    [i \in DOMAIN m |-> [j \in DOMAIN m |->
        IF i = j THEN 0 ELSE m[i][j] * (MaxN + 1) + j]]

ZeroMatrix == [i \in 0..1 |-> [j \in 0..1 |-> 0]]

SelMatrices ==
    {ScenarioMatrix, ZeroMatrix}
        \cup {TieFree(FamilyMatrix(seed, n)) : seed \in 0..MaxSelSeed, n \in 2..MaxN}

LocationIds(n) == {None, NotInTrip} \cup {location_id(i) : i \in 0..(n - 1)}

SelInit ==
    /\ sel \in {SelCall(m, sid, eid) :
                   m \in SelMatrices, sid \in LocationIds(MaxN), eid \in LocationIds(MaxN)}
    /\ opt = Idle
    /\ pack = Idle
    /\ osrm = Idle
    /\ db = Idle
    /\ calls = Idle

\* Lines 478-533: hard anchors, soft candidates, the base route.
SelAnchors ==
    /\ sel.pc = "anchors"
    /\ LET hs == id_to_index(sel.n, sel.start_location_id)
           he0 == id_to_index(sel.n, sel.end_location_id)
           he == IF hs # None /\ he0 # None /\ hs = he0 THEN None ELSE he0
       IN  \E sm \in (IF hs = None THEN Matches(sel.n) ELSE {{}}),
              em \in (IF he = None THEN Matches(sel.n) ELSE {{}}),
              base \in optimize_order_from_durations(sel.durations_s, hs, he) :
              sel' = [sel EXCEPT !.pc = "loop",
                                 !.hard_start_idx = hs, !.hard_end_idx = he,
                                 !.start_options = <<None>> \o AscendingFrom(sm, 0, sel.n),
                                 !.end_options = <<None>> \o AscendingFrom(em, 0, sel.n),
                                 !.base = base, !.si = 1, !.ei = 1]
    /\ UNCHANGED <<opt, pack, osrm, db, calls>>

\* The hypothesis the loops are at, and the anchors it resolves to.
SoftStart == sel.start_options[sel.si]
SoftEnd == sel.end_options[sel.ei]
ResolvedStart == IF sel.hard_start_idx # None THEN sel.hard_start_idx ELSE SoftStart
ResolvedEnd == IF sel.hard_end_idx # None THEN sel.hard_end_idx ELSE SoftEnd

\* The continue statements without the test of the resolved anchors.
Skipped_soft_tests_only ==
    \/ SoftStart = None /\ SoftEnd = None
    \/ SoftStart # None /\ SoftEnd # None /\ SoftStart = SoftEnd

\* Lines 539-547: the three continue statements.
Skipped ==
    \/ SoftStart = None /\ SoftEnd = None
    \/ SoftStart # None /\ SoftEnd # None /\ SoftStart = SoftEnd
    \/ ResolvedStart # None /\ ResolvedEnd # None /\ ResolvedStart = ResolvedEnd

\* Advance the inner loop, then the outer one.
Advance(s) ==
    IF s.ei < Len(s.end_options) THEN [s EXCEPT !.ei = s.ei + 1]
    ELSE IF s.si < Len(s.start_options) THEN [s EXCEPT !.si = s.si + 1, !.ei = 1]
    ELSE [s EXCEPT !.pc = "select"]

SelSkip ==
    /\ sel.pc = "loop"
    /\ Skipped
    /\ sel' = Advance(sel)
    /\ UNCHANGED <<opt, pack, osrm, db, calls>>

\* Lines 548-554.
SelEvaluate ==
    /\ sel.pc = "loop"
    /\ ~Skipped
    /\ \E cand \in optimize_order_from_durations(sel.durations_s, ResolvedStart, ResolvedEnd) :
          sel' = Advance([sel EXCEPT
                    !.best_soft = IF sel.best_soft = <<>>
                                     \/ cand.total_cost < sel.best_soft[1].total_cost
                                  THEN <<cand>> ELSE sel.best_soft,
                    !.evaluated = Append(sel.evaluated,
                                         [s |-> SoftStart, e |-> SoftEnd,
                                          fs |-> ResolvedStart, fe |-> ResolvedEnd,
                                          cand |-> cand])])
    /\ UNCHANGED <<opt, pack, osrm, db, calls>>

\* Lines 556-565.
SelSelect ==
    /\ sel.pc = "select"
    /\ LET result == SelectResult(sel.base, sel.best_soft)
       IN  sel' = [sel EXCEPT !.pc = "done", !.result = result,
                              !.optimized_order =
                                  [p \in 1..Len(result.order) |-> location_id(result.order[p])]]
    /\ UNCHANGED <<opt, pack, osrm, db, calls>>

SelNext ==
    \/ SelAnchors
    \/ SelSkip
    \/ SelEvaluate
    \/ SelSelect

SpecSel == SelInit /\ [][SelNext]_vars

Last(order) == order[Len(order)]

(***************************************************************************)
(* build_trip_itinerary: day packing, stretching, trailing-day             *)
(* equalization.  Minutes are counted in tenths of a minute (1030 is 103.0 *)
(* minutes), the resolution of the code's round(x, 1).                     *)
(*   start  the call is made                                               *)
(*   outer  at the test of the outer while loop                            *)
(*   inner  at the test of the inner while loop, a day being packed        *)
(*   done   the itinerary is returned                                      *)
(***************************************************************************)
Tenths(minutes) == 10 * minutes

\* The region column of a stop that has no region (NULL).
NoRegion == "NULL"

\* day_budget_min_map.get(pace_key, 480)
target_active_min(pace_key) ==
    Tenths(CASE pace_key = "relaxed" -> 360
             [] pace_key = "balanced" -> 480
             [] pace_key = "packed" -> 600
             [] OTHER -> 480)

daily_overhead_min == 1200

tolerance_min == 450

\* The category column of a stop that has no category (NULL), and the pace
\* argument None.
NoCategory == "NULL"
NoPace == "NULL"

\* An exception leaving build_trip_itinerary, as the value of the expression
\* that raised it.
KeyError == -3

\* Line 194: (pace or 'balanced').strip().lower(), on the pace texts of the
\* inputs.
pace_key_of(pace) ==
    CASE pace \in {NoPace, ""} -> "balanced"
      [] pace = " Relaxed " -> "relaxed"
      [] pace = "PACKED" -> "packed"
      [] OTHER -> pace

\* Line 229: (category or '').strip().lower(), on the category texts of the
\* inputs.
category_key(category) ==
    CASE category = NoCategory -> ""
      [] category = " Heritage " -> "heritage"
      [] category = "VIEWPOINT" -> "viewpoint"
      [] OTHER -> category

\* Line 230 with base_by_category[c] for base_by_category.get(c, 75).
base_by_category_strict(c) ==
    CASE c \in {"heritage", "museum", "entertainment", "local-experience"} -> 90
      [] c \in {"religious", "shopping"} -> 75
      [] c \in {"nature", "beach", "wellness"} -> 120
      [] c = "adventure" -> 180
      [] c = "food" -> 60
      [] c = "viewpoint" -> 45
      [] OTHER -> KeyError

\* Lines 214-230: base_by_category.get(c, 75).
base_by_category(c) ==
    CASE c \in {"heritage", "museum", "entertainment", "local-experience"} -> 90
      [] c \in {"religious", "shopping"} -> 75
      [] c \in {"nature", "beach", "wellness"} -> 120
      [] c = "adventure" -> 180
      [] c = "food" -> 60
      [] c = "viewpoint" -> 45
      [] OTHER -> 75

\* Nearest integer of a / b (b > 0, a >= 0), ties to the even integer: Python's
\* round.
RoundHalfEven(a, b) ==
    LET q == a \div b
        r == a % b
    IN  IF 2 * r < b THEN q
        ELSE IF 2 * r > b THEN q + 1
        ELSE IF q % 2 = 0 THEN q ELSE q + 1

\* The pace multiplier in 1/100000.  The double nearest 1.15 lies below 1.15
\* (90 * 1.15 evaluates to 103.49999999999999, which rounds to 103); the
\* product by 0.85 of a table value is exact or no tie.
pace_mult(pace_key) ==
    CASE pace_key = "relaxed" -> 114999
      [] pace_key = "packed" -> 85000
      [] OTHER -> 100000

\* _estimate_visit_min: max(30, int(round(minutes * mult))), in whole minutes.
_estimate_visit_min(category, pace_key) ==
    LET base == base_by_category(category_key(category))
        minutes == RoundHalfEven(base * pace_mult(pace_key), 100000)
    IN  IF base = KeyError THEN KeyError
        ELSE IF minutes < 30 THEN 30 ELSE minutes

\* seg_map.get((prev_loc_id, loc_id), 0.0), no lookup for the first stop.
travel_of(prev_loc_id, loc) == IF prev_loc_id = None THEN 0 ELSE loc.segment

\* Line 296 with the head's step left out of the comparison.
BreakDay_ignores_step(current_day_locs, current_day_active, step_active, pace_key) ==
    /\ current_day_locs # <<>>
    /\ current_day_active > target_active_min(pace_key) + tolerance_min

\* Line 296: the day is closed before the stop at the head of the queue.
BreakDay(current_day_locs, current_day_active, step_active, pace_key) ==
    /\ current_day_locs # <<>>
    /\ current_day_active + step_active > target_active_min(pace_key) + tolerance_min

RECURSIVE SumOver(_, _, _)
SumOver(items, field, p) ==
    IF p > Len(items) THEN 0 ELSE items[p][field] + SumOver(items, field, p + 1)

\* Lines 315-328 without the cap of line 319 on the stretch factor.
Stretched_without_cap(items, active, travel, visit, pace_key) ==
    LET slack == target_active_min(pace_key) - active
    IN  IF slack > 150 /\ visit > 0
        THEN LET new_items == [p \in 1..Len(items) |->
                                 [items[p] EXCEPT !.visit =
                                     RoundHalfEven(items[p].visit * (visit + slack), visit)]]
                 new_visit_total == SumOver(new_items, "visit", 1)
             IN  [items |-> new_items, visit |-> new_visit_total,
                  active |-> travel + new_visit_total]
        ELSE [items |-> items, visit |-> visit, active |-> active]

\* Lines 315-328: the items and sums of the closed day, stretched when the
\* slack is above 15 minutes.  stretch_factor = min(1.5, (visit + slack) / visit),
\* each visit rounded to a tenth.
Stretched(items, active, travel, visit, pace_key) ==
    LET slack == target_active_min(pace_key) - active
    IN  IF slack > 150 /\ visit > 0
        THEN LET capped == 2 * (visit + slack) >= 3 * visit
                 new_items == [p \in 1..Len(items) |->
                                 [items[p] EXCEPT !.visit =
                                     IF capped THEN RoundHalfEven(3 * items[p].visit, 2)
                                     ELSE RoundHalfEven(items[p].visit * (visit + slack),
                                                        visit)]]
                 new_visit_total == SumOver(new_items, "visit", 1)
             IN  [items |-> new_items, visit |-> new_visit_total,
                  active |-> travel + new_visit_total]
        ELSE [items |-> items, visit |-> visit, active |-> active]

\* Lines 333-337: int(item['visit']) and round(item['travel'], 1).
final_loc(item) ==
    [location_id |-> item.loc.location_id, category |-> item.loc.category,
     region |-> item.loc.region,
     estimated_visit_min |-> Tenths(item.visit \div 10),
     estimated_travel_from_prev_min |-> item.travel,
     packed_visit |-> item.packed_visit]

\* Lines 339-347.
DayPayload(day_number, st, travel) ==
    [day_number |-> day_number,
     locations |-> [p \in 1..Len(st.items) |-> final_loc(st.items[p])],
     travel_min |-> travel, visit_min |-> st.visit, active_min |-> st.active,
     overhead_min |-> daily_overhead_min,
     total_min |-> st.active + daily_overhead_min]

\* Line 356 with the day before the last needing two stops only.
ShouldEqualize_two_stops(last, prev, pace_key) ==
    /\ Len(last.locations) = 1
    /\ Len(prev.locations) >= 2
    /\ 2 * last.active_min < target_active_min(pace_key)

\* Line 356.
ShouldEqualize(last, prev, pace_key) ==
    /\ Len(last.locations) = 1
    /\ Len(prev.locations) > 2
    /\ 2 * last.active_min < target_active_min(pace_key)

\* Lines 361-364 and 367-370.
Recalculated(day, locations) ==
    LET travel == SumOver(locations, "estimated_travel_from_prev_min", 1)
        visit == SumOver(locations, "estimated_visit_min", 1)
    IN  [day EXCEPT !.locations = locations, !.travel_min = travel, !.visit_min = visit,
                    !.active_min = travel + visit,
                    !.total_min = travel + visit + day.overhead_min]

\* Lines 357-370 with the popped stop appended to the last day, not inserted
\* at its front.
Equalized_appends_shifted(days) ==
    LET d == Len(days)
        prev == days[d - 1]
        last == days[d]
        shifted == prev.locations[Len(prev.locations)]
    IN  [days EXCEPT
            ![d - 1] = Recalculated(prev, SubSeq(prev.locations, 1, Len(prev.locations) - 1)),
            ![d] = Recalculated(last, last.locations \o <<shifted>>)]

\* Lines 357-370 with the popped stop never inserted in the last day.
Equalized_drops_shifted(days) ==
    LET d == Len(days)
        prev == days[d - 1]
    IN  [days EXCEPT
            ![d - 1] = Recalculated(prev, SubSeq(prev.locations, 1, Len(prev.locations) - 1))]

\* Lines 357-370: prev['locations'].pop(), last['locations'].insert(0, shifted).
Equalized(days) ==
    LET d == Len(days)
        prev == days[d - 1]
        last == days[d]
        shifted == prev.locations[Len(prev.locations)]
    IN  [days EXCEPT
            ![d - 1] = Recalculated(prev, SubSeq(prev.locations, 1, Len(prev.locations) - 1)),
            ![d] = Recalculated(last, <<shifted>> \o last.locations)]

(***************************************************************************)
(* The inputs: a pace, and the trip's stops in visit order, each with its  *)
(* category and the snapshot's minutes from the stop before it (0 when     *)
(* the snapshot has no such segment).                                      *)
(***************************************************************************)
\* Lines 372-381 with the day filed under the region of its last stop.
region_name_of_last_stop(day) ==
    IF day.locations = <<>> THEN "Other"
    ELSE IF Last(day.locations).region \in {NoRegion, ""} THEN "Other"
    ELSE Last(day.locations).region

\* Lines 375-376: (day.get('locations') or [{}])[0].get('region') or 'Other'.
region_name(day) ==
    IF day.locations = <<>> THEN "Other"
    ELSE IF day.locations[1].region \in {NoRegion, ""} THEN "Other"
    ELSE day.locations[1].region

\* Line 377: region_groups.setdefault(region_name, []).append(day), on an
\* OrderedDict kept as the sequence of its items in insertion order.
GroupDay(groups, day) ==
    LET name == region_name(day)
    IN  IF \E g \in 1..Len(groups) : groups[g].name = name
        THEN [g \in 1..Len(groups) |->
                IF groups[g].name = name
                THEN [groups[g] EXCEPT !.days = Append(@, day)]
                ELSE groups[g]]
        ELSE Append(groups, [name |-> name, days |-> <<day>>])

\* Lines 373-381.
RECURSIVE region_groups(_, _, _)
region_groups(days, d, groups) ==
    IF d > Len(days) THEN groups
    ELSE region_groups(days, d + 1, GroupDay(groups, days[d]))

Paces == {"relaxed", "balanced", "packed"}

Categories == {"heritage", "adventure"}

SegmentChoices == {0, Tenths(199)}

Stops(k) ==
    {f \in [1..k -> [category : Categories, segment : SegmentChoices, region : {NoRegion}]] :
        k > 0 => f[1].segment = 0}

WithIds(f) ==
    [p \in 1..Len(f) |->
        [location_id |-> p, category |-> f[p].category, segment |-> f[p].segment,
         region |-> f[p].region]]

PackCall(pace_key, all_locs) ==
    [pc |-> "start", pace_key |-> pace_key, all_locs |-> all_locs,
     temp_locs_queue |-> <<>>, prev_loc_id |-> None,
     current_day_locs |-> <<>>, current_day_active |-> 0,
     current_day_travel |-> 0, current_day_visit |-> 0,
     days_global |-> <<>>, shifted |-> <<>>, regions_output |-> <<>>,
     total_locations |-> None, total_days |-> None, returned |-> "nothing"]

PackInit ==
    /\ pack \in {PackCall(pace_key, WithIds(f)) :
                    pace_key \in Paces, f \in UNION {Stops(k) : k \in 0..MaxStops}}
    /\ opt = Idle
    /\ sel = Idle
    /\ osrm = Idle
    /\ db = Idle
    /\ calls = Idle

\* Lines 250-251: no stop, the empty itinerary.
ItineraryEmpty ==
    /\ pack.pc = "start"
    /\ pack.all_locs = <<>>
    /\ pack' = [pack EXCEPT !.pc = "done", !.regions_output = <<>>,
                            !.total_locations = 0, !.returned = "empty"]
    /\ UNCHANGED <<opt, sel, osrm, db, calls>>

\* Lines 253-274.
PackBegin ==
    /\ pack.pc = "start"
    /\ pack.all_locs # <<>>
    /\ pack' = [pack EXCEPT !.pc = "outer", !.temp_locs_queue = pack.all_locs,
                            !.prev_loc_id = None]
    /\ UNCHANGED <<opt, sel, osrm, db, calls>>

\* Lines 276-280: a day is opened.
DayOpen ==
    /\ pack.pc = "outer"
    /\ pack.temp_locs_queue # <<>>
    /\ pack' = [pack EXCEPT !.pc = "inner", !.current_day_locs = <<>>,
                            !.current_day_active = 0, !.current_day_travel = 0,
                            !.current_day_visit = 0]
    /\ UNCHANGED <<opt, sel, osrm, db, calls>>

\* The stop at the head of the queue, its travel, visit and step minutes.
HeadLoc == Head(pack.temp_locs_queue)
HeadTravel == travel_of(pack.prev_loc_id, HeadLoc)
HeadEstimate == _estimate_visit_min(HeadLoc.category, pack.pace_key)
HeadVisit == Tenths(HeadEstimate)
StepActive(travel_min, visit_min) == travel_min + visit_min

\* Lines 283-309 without the pop(0) of line 300.
PackStop_without_pop ==
    /\ pack.pc = "inner"
    /\ pack.temp_locs_queue # <<>>
    /\ IF HeadEstimate = KeyError
       THEN pack' = [pack EXCEPT !.pc = "raised"]
       ELSE /\ ~BreakDay(pack.current_day_locs, pack.current_day_active,
                         StepActive(HeadTravel, HeadVisit), pack.pace_key)
            /\ pack' = [pack EXCEPT
                   !.current_day_locs =
                       Append(pack.current_day_locs,
                              [loc |-> HeadLoc, travel |-> HeadTravel, visit |-> HeadVisit,
                               packed_visit |-> HeadVisit]),
                   !.current_day_active =
                       pack.current_day_active + StepActive(HeadTravel, HeadVisit),
                   !.current_day_travel = pack.current_day_travel + HeadTravel,
                   !.current_day_visit = pack.current_day_visit + HeadVisit,
                   !.prev_loc_id = HeadLoc.location_id]
    /\ UNCHANGED <<opt, sel, osrm, db, calls>>

\* Lines 283-309: the head of the queue is committed to the day; an exception
\* of the visit estimate (line 291) leaves the function.
PackStop ==
    /\ pack.pc = "inner"
    /\ pack.temp_locs_queue # <<>>
    /\ IF HeadEstimate = KeyError
       THEN pack' = [pack EXCEPT !.pc = "raised"]
       ELSE /\ ~BreakDay(pack.current_day_locs, pack.current_day_active,
                         StepActive(HeadTravel, HeadVisit), pack.pace_key)
            /\ pack' = [pack EXCEPT
                   !.temp_locs_queue = Tail(pack.temp_locs_queue),
                   !.current_day_locs =
                       Append(pack.current_day_locs,
                              [loc |-> HeadLoc, travel |-> HeadTravel, visit |-> HeadVisit,
                               packed_visit |-> HeadVisit]),
                   !.current_day_active =
                       pack.current_day_active + StepActive(HeadTravel, HeadVisit),
                   !.current_day_travel = pack.current_day_travel + HeadTravel,
                   !.current_day_visit = pack.current_day_visit + HeadVisit,
                   !.prev_loc_id = HeadLoc.location_id]
    /\ UNCHANGED <<opt, sel, osrm, db, calls>>

\* Lines 283, 296-297 and 311-347: the inner loop ends (queue empty, or
\* break); the day is stretched and appended.
DayClose ==
    /\ pack.pc = "inner"
    /\ IF pack.temp_locs_queue = <<>> THEN TRUE
       ELSE /\ HeadEstimate # KeyError
            /\ BreakDay(pack.current_day_locs, pack.current_day_active,
                        StepActive(HeadTravel, HeadVisit), pack.pace_key)
    /\ LET st == Stretched(pack.current_day_locs, pack.current_day_active,
                           pack.current_day_travel, pack.current_day_visit, pack.pace_key)
       IN  pack' = [pack EXCEPT
                       !.pc = "outer",
                       !.current_day_locs = st.items,
                       !.current_day_visit = st.visit,
                       !.current_day_active = st.active,
                       !.days_global =
                           IF pack.current_day_locs # <<>>
                           THEN Append(pack.days_global,
                                       DayPayload(Len(pack.days_global) + 1, st,
                                                  pack.current_day_travel))
                           ELSE pack.days_global]
    /\ UNCHANGED <<opt, sel, osrm, db, calls>>

\* Lines 352-390: the last day takes the final stop of the day before it;
\* the days are grouped by region and the itinerary is returned.
EqualizeMove ==
    /\ pack.pc = "outer"
    /\ pack.temp_locs_queue = <<>>
    /\ Len(pack.days_global) >= 2
    /\ ShouldEqualize(pack.days_global[Len(pack.days_global)],
                      pack.days_global[Len(pack.days_global) - 1], pack.pace_key)
    /\ pack' = [pack EXCEPT
                   !.pc = "done",
                   !.shifted =
                       <<Last(pack.days_global[Len(pack.days_global) - 1].locations)>>,
                   !.days_global = Equalized(pack.days_global),
                   !.regions_output = region_groups(Equalized(pack.days_global), 1, <<>>),
                   !.total_locations = Len(pack.all_locs),
                   !.total_days = Len(Equalized(pack.days_global)),
                   !.returned = "itinerary"]
    /\ UNCHANGED <<opt, sel, osrm, db, calls>>

\* Lines 352-356 and 372-390: no equalization; the days are grouped by region
\* and the itinerary is returned.
EqualizeSkip ==
    /\ pack.pc = "outer"
    /\ pack.temp_locs_queue = <<>>
    /\ ~(/\ Len(pack.days_global) >= 2
         /\ ShouldEqualize(pack.days_global[Len(pack.days_global)],
                           pack.days_global[Len(pack.days_global) - 1], pack.pace_key))
    /\ pack' = [pack EXCEPT !.pc = "done",
                            !.regions_output = region_groups(pack.days_global, 1, <<>>),
                            !.total_locations = Len(pack.all_locs),
                            !.total_days = Len(pack.days_global),
                            !.returned = "itinerary"]
    /\ UNCHANGED <<opt, sel, osrm, db, calls>>

PackNext ==
    \/ ItineraryEmpty
    \/ PackBegin
    \/ DayOpen
    \/ PackStop
    \/ DayClose
    \/ EqualizeMove
    \/ EqualizeSkip

SpecPack == PackInit /\ [][PackNext]_vars

\* The calls of the itinerary builder with up to MaxLiveStops stops.  The
\* function is one sequential piece of code with no wait in it: whenever a
\* step of it is possible, a step is taken.
LivePackInit ==
    /\ pack \in {PackCall(pace_key, WithIds(f)) :
                    pace_key \in Paces, f \in UNION {Stops(k) : k \in 0..MaxLiveStops}}
    /\ opt = Idle
    /\ sel = Idle
    /\ osrm = Idle
    /\ db = Idle
    /\ calls = Idle

LivePack == LivePackInit /\ [][PackNext]_vars /\ WF_vars(PackNext)

(***************************************************************************)
(* The same operation on trips whose stops lie in different regions (or    *)
(* have none) and that have no stored route segments.                      *)
(***************************************************************************)
Regions == {NoRegion, "North", "South"}

GroupStops(k) == [1..k -> [category : Categories, segment : {0}, region : Regions]]

GroupInit ==
    /\ pack \in {PackCall(pace_key, WithIds(f)) :
                    pace_key \in Paces, f \in UNION {GroupStops(k) : k \in 0..MaxGroupStops}}
    /\ opt = Idle
    /\ sel = Idle
    /\ osrm = Idle
    /\ db = Idle
    /\ calls = Idle

SpecGroup == GroupInit /\ [][PackNext]_vars

(***************************************************************************)
(* The same operation called with any pace text (or None) on stops of any  *)
(* category text (or NULL).                                                *)
(***************************************************************************)
AnyPaces == {NoPace, "", " Relaxed ", "PACKED", "balanced", "leisurely"}

AnyCategories == {NoCategory, " Heritage ", "VIEWPOINT", "adventure", "zoo"}

AnyStops(k) == [1..k -> [category : AnyCategories, segment : {0}, region : {NoRegion}]]

AnyInit ==
    /\ pack \in {PackCall(pace_key_of(pace), WithIds(f)) :
                    pace \in AnyPaces, f \in UNION {AnyStops(k) : k \in 0..MaxAnyStops}}
    /\ opt = Idle
    /\ sel = Idle
    /\ osrm = Idle
    /\ db = Idle
    /\ calls = Idle

SpecAny == AnyInit /\ [][PackNext]_vars

(***************************************************************************)
(* Properties of the constrained selector (under SpecSel).                 *)
(***************************************************************************)
BaseKnown == sel.pc \in {"loop", "select", "done"}

\* C3: when start_location_id is the id of stop s of the trip, s is at
\* position 0 of the base route, of every soft route evaluated and of the
\* route returned.
C3_HardStartFirst ==
    \A s \in 0..(sel.n - 1) :
        sel.start_location_id = location_id(s) =>
            /\ BaseKnown => sel.base.order[1] = s
            /\ \A p \in 1..Len(sel.evaluated) : sel.evaluated[p].cand.order[1] = s
            /\ sel.pc = "done" =>
                  /\ sel.result.order[1] = s
                  /\ sel.optimized_order[1] = sel.start_location_id

\* C3 witness: a 4-stop trip with a hard start that is not the central start
\* and a soft end candidate; the accepted route is a soft route.
C3_Witness ==
    /\ sel.pc = "done" /\ sel.n = 4
    /\ sel.start_location_id = location_id(2)
    /\ sel.end_location_id = None
    /\ Len(sel.evaluated) > 0
    /\ sel.result # sel.base
    /\ sel.result.order[1] = 2

\* C4: when end_location_id is the id of stop e of the trip and differs from
\* the hard start, e is at the last position of the base route, of every
\* soft route evaluated and of the route returned.
C4_HardEndLast ==
    \A e \in 0..(sel.n - 1) :
        (sel.end_location_id = location_id(e)
            /\ sel.start_location_id # sel.end_location_id) =>
            /\ BaseKnown => (Len(sel.base.order) = sel.n /\ Last(sel.base.order) = e)
            /\ \A p \in 1..Len(sel.evaluated) : Last(sel.evaluated[p].cand.order) = e
            /\ sel.pc = "done" =>
                  /\ Len(sel.result.order) = sel.n
                  /\ Last(sel.result.order) = e
                  /\ Last(sel.optimized_order) = sel.end_location_id

\* C4 witness: a 4-stop trip with a hard end, no hard start and a soft start
\* candidate; the accepted route is a soft route that ends at the hard end.
C4_Witness ==
    /\ sel.pc = "done" /\ sel.n = 4
    /\ sel.end_location_id = location_id(1)
    /\ sel.start_location_id = None
    /\ Len(sel.evaluated) > 0
    /\ sel.result # sel.base
    /\ Last(sel.result.order) = 1

EvaluatedCosts == {sel.evaluated[p].cand.total_cost : p \in 1..Len(sel.evaluated)}

LowestEvaluatedCost == CHOOSE c \in EvaluatedCosts : \A d \in EvaluatedCosts : c <= d

\* At least one soft hypothesis evaluated, base cost above 0, best soft cost
\* at most 1.12 times the base cost.
SoftAcceptable ==
    /\ Len(sel.evaluated) > 0
    /\ sel.base.total_cost > 0
    /\ 100 * LowestEvaluatedCost <= 112 * sel.base.total_cost

\* C5: the returned route differs from the base route only if a soft
\* hypothesis was evaluated, the base cost is above 0 and the best soft cost
\* is at most 1.12 times the base cost, and then it is the best soft route;
\* in every other case it is the base route, which is a route of the hard
\* anchors alone.
C5_SoftOnlyWithinCeiling ==
    sel.pc = "done" =>
        /\ sel.base \in optimize_order_from_durations(
                            sel.durations_s,
                            id_to_index(sel.n, sel.start_location_id),
                            IF sel.end_location_id = sel.start_location_id THEN None
                            ELSE id_to_index(sel.n, sel.end_location_id))
        /\ ~SoftAcceptable => sel.result = sel.base
        /\ sel.result # sel.base =>
              /\ SoftAcceptable
              /\ sel.result.total_cost = LowestEvaluatedCost
              /\ \E p \in 1..Len(sel.evaluated) : sel.evaluated[p].cand = sel.result

\* C5 witness: a soft route costlier than the base route, within the ceiling,
\* was returned.
C5_Witness ==
    /\ sel.pc = "done"
    /\ sel.result # sel.base
    /\ sel.result.total_cost > sel.base.total_cost
    /\ 100 * sel.result.total_cost <= 112 * sel.base.total_cost

\* Further cases of C5 that are reached: a soft route above the ceiling is
\* refused; a base cost of 0 keeps the base route.
C5_CaseRefused ==
    /\ sel.pc = "done" /\ Len(sel.evaluated) > 0 /\ sel.base.total_cost > 0
    /\ 100 * LowestEvaluatedCost > 112 * sel.base.total_cost
    /\ sel.result = sel.base

C5_CaseZeroBase ==
    /\ sel.pc = "done" /\ Len(sel.evaluated) > 0 /\ sel.base.total_cost = 0
    /\ \E p \in 1..Len(sel.evaluated) : sel.evaluated[p].cand.order # sel.base.order
    /\ sel.result = sel.base

(***************************************************************************)
(* Properties of optimize_order_from_durations (under SpecOpt).            *)
(***************************************************************************)
IsPermutation(order, n) ==
    /\ Len(order) = n
    /\ {order[p] : p \in 1..Len(order)} = 0..(n - 1)
    /\ \A p, q \in 1..Len(order) : p # q => order[p] # order[q]

\* C1: for a square finite matrix with N >= 2 and any anchors, the returned
\* order holds every index of 0..N-1 exactly once.
C1_OrderIsPermutation ==
    (opt.pc = "done" /\ opt.n >= 2) => IsPermutation(opt.result.order, opt.n)

\* C1 witness: a 4-stop call with both anchors given returned a path that
\* 2-opt changed.
C1_Witness ==
    /\ opt.pc = "done" /\ opt.n = 4
    /\ opt.fixed_start_index # None /\ opt.fixed_end_index # None
    /\ opt.result.order # opt.order
    /\ IsPermutation(opt.result.order, 4)

\* C2: while two_opt_improve runs and when it has returned, the cost of its
\* path is at most the cost of the nearest-neighbour path it was given,
\* with fixed_start true or false.
C2_TwoOptNeverWorse ==
    /\ opt.pc = "two_opt" =>
          /\ opt.best_cost = path_cost(opt.cost, opt.best)
          /\ opt.best_cost <= path_cost(opt.cost, opt.order)
    /\ (opt.pc = "done" /\ opt.n >= 2) =>
          /\ opt.result.order = opt.best
          /\ opt.result.total_cost <= path_cost(opt.cost, opt.order)

\* C2 witness: the 4-stop scenario matrix with no anchors; the seed costs 65
\* and the returned path 60.
C2_Witness ==
    /\ opt.pc = "done"
    /\ opt.durations_s = ScenarioMatrix
    /\ opt.fixed_start_index = None /\ opt.fixed_end_index = None
    /\ path_cost(opt.cost, opt.order) = 65
    /\ opt.result.total_cost = 60

IsSquare(raw) == \A i \in DOMAIN raw : Size(raw[i]) = Size(raw)

HasMissingCell(raw) == \E i \in DOMAIN raw : \E j \in DOMAIN raw[i] : raw[i][j] = None

\* C10: for N > 0 the call raises exactly when the raw matrix is not square
\* or has a missing cell (anywhere, the diagonal included); a square matrix
\* with no missing cell is accepted.
C10_RejectsExactlyDefective ==
    (opt.pc # "call" /\ Size(opt.durations_s) > 0) =>
        ((opt.pc = "raised") <=>
            (~IsSquare(opt.durations_s) \/ HasMissingCell(opt.durations_s)))

\* C10 witness: a square 3 x 3 matrix whose only missing cell is on the
\* diagonal was rejected.
C10_Witness ==
    /\ opt.pc = "raised"
    /\ Size(opt.durations_s) = 3 /\ IsSquare(opt.durations_s)
    /\ opt.durations_s[1][1] = None
    /\ \A i, j \in 0..2 : opt.durations_s[i][j] = None => (i = 1 /\ j = 1)

(***************************************************************************)
(* Properties of the day packing (SpecPack).                               *)
(***************************************************************************)
Packing == pack.pc \in {"outer", "inner"}

Returned == pack.pc = "done" /\ pack.returned = "itinerary"

Ceiling == target_active_min(pack.pace_key) + tolerance_min

RECURSIVE StopCount(_, _)
StopCount(days, d) ==
    IF d > Len(days) THEN 0 ELSE Len(days[d].locations) + StopCount(days, d + 1)

\* The location ids of the days in day order, then stop order.
RECURSIVE DayIds(_, _)
DayIds(days, d) ==
    IF d > Len(days) THEN <<>>
    ELSE [p \in 1..Len(days[d].locations) |-> days[d].locations[p].location_id]
            \o DayIds(days, d + 1)

InputIds == [p \in 1..Len(pack.all_locs) |-> pack.all_locs[p].location_id]

\* A day's active minutes before stretching: travel from the previous stop
\* plus the visit minutes the packing pass used, over its stops.
Unstretched(day) ==
    SumOver(day.locations, "estimated_travel_from_prev_min", 1)
        + SumOver(day.locations, "packed_visit", 1)

\* The days the equalization did not touch: all of them, or all but the last
\* two once a stop has been moved.
UnchangedDays ==
    IF pack.shifted = <<>> THEN 1..Len(pack.days_global)
    ELSE 1..(Len(pack.days_global) - 2)

\* C6: every input stop is in exactly one day (the days' stop counts add up
\* to the input stop count and the days hold each input id once), and every
\* day has at least one stop, also after the trailing-day equalization.
C6_EveryStopInOneDay ==
    /\ pack.pc # "idle" =>
          \A d \in 1..Len(pack.days_global) : Len(pack.days_global[d].locations) >= 1
    /\ Returned =>
          /\ StopCount(pack.days_global, 1) = Len(pack.all_locs)
          /\ \A id \in 1..Len(pack.all_locs) :
                Cardinality({p \in 1..Len(DayIds(pack.days_global, 1)) :
                                DayIds(pack.days_global, 1)[p] = id}) = 1

\* An itinerary of three days or more was returned after the equalization
\* moved a stop.
C6_Witness ==
    /\ Returned
    /\ pack.shifted # <<>>
    /\ Len(pack.days_global) >= 3

StepOf(location) == location.estimated_travel_from_prev_min + location.packed_visit

\* In the packing pass the days, then the day being filled, then the queue
\* hold the input stops in input order.
ConsumedInOrder ==
    Packing =>
        DayIds(pack.days_global, 1)
            \o (IF pack.pc = "inner"
                THEN [p \in 1..Len(pack.current_day_locs) |->
                        pack.current_day_locs[p].loc.location_id]
                ELSE <<>>)
            \o [p \in 1..Len(pack.temp_locs_queue) |-> pack.temp_locs_queue[p].location_id]
        = InputIds

\* In the packing pass every day but the last was closed because the stop
\* that opens the next day would have taken it above target + 45, and so was
\* the last day while stops are still queued.
ClosedOnlyWhenNextExceeds ==
    Packing =>
        /\ \A d \in 1..(Len(pack.days_global) - 1) :
              Unstretched(pack.days_global[d])
                  + StepOf(pack.days_global[d + 1].locations[1]) > Ceiling
        /\ (pack.pc = "outer" /\ pack.temp_locs_queue # <<>> /\ pack.days_global # <<>>) =>
              Unstretched(Last(pack.days_global))
                  + StepActive(HeadTravel, HeadVisit) > Ceiling

\* Six heritage stops at relaxed pace with no travel minutes, all days built.
SixHeritageRelaxed ==
    /\ pack.pc = "outer"
    /\ pack.temp_locs_queue = <<>>
    /\ pack.pace_key = "relaxed"
    /\ Len(pack.all_locs) = 6
    /\ \A p \in 1..6 :
          pack.all_locs[p].category = "heritage" /\ pack.all_locs[p].segment = 0

\* C8 as stated: the queue is consumed in order, a day is closed with stops
\* still queued only when the next stop would take it above target + 45, and
\* six heritage stops at relaxed pace with no travel are 104 minutes each and
\* put exactly 3 stops in day 1.
C8_AsClaimed ==
    /\ ConsumedInOrder
    /\ ClosedOnlyWhenNextExceeds
    /\ SixHeritageRelaxed =>
          /\ \A d \in 1..Len(pack.days_global) :
                \A p \in 1..Len(pack.days_global[d].locations) :
                    pack.days_global[d].locations[p].packed_visit = Tenths(104)
          /\ Len(pack.days_global[1].locations) = 3

\* C8 without the minutes of the scenario: the queue is consumed in order, a
\* day is closed with stops still queued only when the next stop would take
\* it above target + 45, and six heritage stops at relaxed pace with no
\* travel put exactly 3 stops in day 1.
C8_ClosedOnlyWhenNextExceeds ==
    /\ ConsumedInOrder
    /\ ClosedOnlyWhenNextExceeds
    /\ SixHeritageRelaxed => Len(pack.days_global[1].locations) = 3

\* The scenario of C8 with all its days built.
C8_Witness ==
    /\ SixHeritageRelaxed
    /\ Len(pack.days_global) = 2

\* The condition of the equalization in the words of C9.
EqualizationDue(days, pace_key) ==
    /\ Len(days) >= 2
    /\ Len(days[Len(days)].locations) = 1
    /\ Len(days[Len(days) - 1].locations) > 2
    /\ 2 * days[Len(days)].active_min < target_active_min(pace_key)

\* after is before with the final stop of the day before the last moved to
\* the front of the last day, and no other stop moved.
OneStopMoved(before, after) ==
    LET d == Len(before)
    IN  /\ Len(after) = d
        /\ \A e \in 1..(d - 2) : after[e] = before[e]
        /\ after[d - 1].locations =
              SubSeq(before[d - 1].locations, 1, Len(before[d - 1].locations) - 1)
        /\ after[d].locations = <<Last(before[d - 1].locations)>> \o before[d].locations

\* C9: once all days are built, the final stop of the day before the last
\* moves to the front of the last day if and only if there are two days or
\* more, the last day has exactly one stop, the day before it more than two
\* and the last day's active minutes are under half the target; exactly one
\* stop moves, the days before the last two are unchanged, and nothing moves
\* afterwards; when the condition does not hold no day is changed.
C9_EqualizationIffDue ==
    [][/\ (pack.pc = "outer" /\ pack.temp_locs_queue = <<>>) =>
             IF EqualizationDue(pack.days_global, pack.pace_key)
             THEN OneStopMoved(pack.days_global, pack'.days_global)
             ELSE pack'.days_global = pack.days_global
       /\ pack.pc = "done" => pack'.days_global = pack.days_global]_vars

\* An itinerary returned after the equalization moved a stop past an
\* untouched first day.
C9_Witness ==
    /\ Returned
    /\ pack.shifted # <<>>
    /\ Len(pack.days_global) >= 3
    /\ Len(pack.days_global[Len(pack.days_global)].locations) = 2
    /\ pack.days_global[Len(pack.days_global)].locations[1] = pack.shifted[1]

(***************************************************************************)
(* Degenerate inputs of the optimizer (SpecOpt).                           *)
(***************************************************************************)
EmptyMatrixCall == opt.pc # "idle" /\ Size(opt.durations_s) = 0

SingleStopCall ==
    /\ opt.pc # "idle"
    /\ Size(opt.durations_s) = 1
    /\ Size(opt.durations_s[0]) = 1
    /\ opt.durations_s[0][0] # None

TrivialResult(n) == [raised |-> FALSE, order |-> RangeOrder(n), total_cost |-> 0]

\* C11 as stated: called with the empty list or with a 1 x 1 matrix, whatever
\* the anchors, optimize_order_from_durations does not fail and returns the
\* order of range(n) with total cost 0.
C11_AsClaimed ==
    (EmptyMatrixCall \/ SingleStopCall) =>
        /\ opt.pc # "raised"
        /\ opt.pc = "done" => opt.result = TrivialResult(Size(opt.durations_s))

\* C11 for N = 1 only: a 1 x 1 matrix, whatever the anchors, never fails and
\* returns order [0] with total cost 0.
C11_SingleStopTrivial ==
    SingleStopCall =>
        /\ opt.pc # "raised"
        /\ opt.pc = "done" => opt.result = TrivialResult(1)

\* A 1 x 1 call with both anchors given and out of range has returned.
C11_Witness ==
    /\ SingleStopCall
    /\ opt.pc = "done"
    /\ opt.fixed_start_index = MaxN - 1
    /\ opt.fixed_end_index = MaxN - 1
    /\ opt.result.order = <<0>>

(***************************************************************************)
(* Properties of the region grouping (SpecGroup).                          *)
(***************************************************************************)
\* The places (group, position) of the returned itinerary that hold the day.
PlacesOf(day) ==
    {pl \in (1..Len(pack.regions_output)) \X (1..Len(pack.days_global)) :
        /\ pl[2] <= Len(pack.regions_output[pl[1]].days)
        /\ pack.regions_output[pl[1]].days[pl[2]] = day}

\* The region of the day's first stop, 'Other' when it has none.
FirstStopRegion(day) ==
    IF day.locations[1].region = NoRegion THEN "Other" ELSE day.locations[1].region

\* C12: in the returned itinerary every day is in exactly one region group,
\* the group named by the region of the day's first stop as it stands after
\* equalization ('Other' without a region); the groups are in the order of
\* the first day of each region and hold only days of the itinerary, in
\* ascending day number.
C12_DaysGroupedByFirstStopRegion ==
    Returned =>
        /\ \A d \in 1..Len(pack.days_global) :
              /\ Cardinality(PlacesOf(pack.days_global[d])) = 1
              /\ \A pl \in PlacesOf(pack.days_global[d]) :
                    pack.regions_output[pl[1]].name = FirstStopRegion(pack.days_global[d])
        /\ \A g \in 1..Len(pack.regions_output) :
              LET days == pack.regions_output[g].days
              IN  /\ days # <<>>
                  /\ \A i \in 1..Len(days) :
                        \E d \in 1..Len(pack.days_global) : days[i] = pack.days_global[d]
                  /\ \A i, k \in 1..Len(days) :
                        i < k => days[i].day_number < days[k].day_number
        /\ \A g, h \in 1..Len(pack.regions_output) :
              g < h => /\ pack.regions_output[g].name # pack.regions_output[h].name
                       /\ pack.regions_output[g].days[1].day_number
                             < pack.regions_output[h].days[1].day_number

\* An itinerary returned after the equalization gave the last day a first
\* stop of another region than the day's own stop: the own stop is of the
\* region of day 1, and the last day is in a second group named by the moved
\* stop, which has no region.
C12_Witness ==
    /\ Returned
    /\ pack.shifted # <<>>
    /\ Len(pack.days_global) = 2
    /\ pack.days_global[2].locations[2].region = pack.days_global[1].locations[1].region
    /\ pack.days_global[2].locations[1].region = NoRegion
    /\ Len(pack.regions_output) = 2
    /\ pack.regions_output[2] = [name |-> "Other", days |-> <<pack.days_global[2]>>]

\* Three days whose regions alternate: the first group holds days 1 and 3.
C12_CaseInterleaved ==
    /\ Returned
    /\ Len(pack.days_global) = 3
    /\ Len(pack.regions_output) = 2
    /\ pack.regions_output[1].days = <<pack.days_global[1], pack.days_global[3]>>
    /\ pack.regions_output[2].days = <<pack.days_global[2]>>

(***************************************************************************)
(* build_trip_itinerary on any pace and category texts (SpecAny).          *)
(***************************************************************************)
\* C13: build_trip_itinerary never raises: without a stop it returns the
\* empty itinerary (no region, a stop count of 0), and with stops of any
\* category under any pace it goes on until it returns an itinerary.
C13_NeverRaises ==
    /\ pack.pc # "raised"
    /\ pack.pc \in {"start", "outer", "inner"} => ENABLED PackNext
    /\ pack.pc = "done" =>
          IF pack.all_locs = <<>>
          THEN /\ pack.returned = "empty"
               /\ pack.regions_output = <<>>
               /\ pack.total_locations = 0
          ELSE /\ pack.returned = "itinerary"
               /\ pack.total_locations = Len(pack.all_locs)

\* An itinerary was returned under a pace that is no key of the budget table
\* for stops of which one has no category and one a category that is no key
\* of the visit table.
C13_Witness ==
    /\ Returned
    /\ pack.pace_key = "leisurely"
    /\ \E p \in 1..Len(pack.all_locs) : pack.all_locs[p].category = NoCategory
    /\ \E p \in 1..Len(pack.all_locs) : pack.all_locs[p].category = "zoo"

\* The call without a stop has returned.
C13_CaseEmpty == pack.pc = "done" /\ pack.all_locs = <<>>

(***************************************************************************)
(* fetch_table_matrix (osrm.py): the client of the matrix provider.        *)
(*   call       the call is made with count coordinates                    *)
(*   requested  the GET request was sent (requests counts them)            *)
(*   done       the call returned result;  raised: it raised osrm.raised   *)
(***************************************************************************)
max_coords == 100

\* What the provider may answer to a request (lines 77-97).  An answer of
\* kind "ok" carries the two matrices, which the client does not look into.
ResponseKinds == {"request_exception", "http_error", "not_json", "code_not_ok",
                  "no_distances", "no_durations", "ok"}

\* The matrix [[0.0]] * count of the short circuits (lines 62 and 65).
TrivialMatrix(count) == [i \in 0..(count - 1) |-> [j \in 0..(count - 1) |-> 0]]

\* Line 67 with >= for >.
TooManyCoordinates_from_limit(count) == count >= max_coords

\* Line 67.
TooManyCoordinates(count) == count > max_coords

\* Lines 61-69: what the call does before any request; "request" when it
\* goes on to send one.
BeforeRequest(count) ==
    IF count = 0 THEN "return_empty"
    ELSE IF count = 1 THEN "return_single"
    ELSE IF TooManyCoordinates(count) THEN "ValueError"
    ELSE "request"

\* Lines 77-97: the error the answer raises, "" when it raises none.
ResponseError(response) ==
    IF response.kind = "ok" THEN "" ELSE "RuntimeError"

OsrmCall(count) ==
    [pc |-> "call", count |-> count, requests |-> 0, raised |-> "",
     distances_m |-> <<>>, durations_s |-> <<>>]

\* The matrices of an answer, by the rows they have and whether a cell is
\* null.
ProviderMatrices(count) == [rows : {count}, has_null : BOOLEAN]

Responses(count) ==
    [kind : ResponseKinds, distances : ProviderMatrices(count),
     durations : ProviderMatrices(count)]

OsrmInit ==
    /\ osrm \in {OsrmCall(count) : count \in 0..MaxCoords}
    /\ opt = Idle
    /\ sel = Idle
    /\ pack = Idle
    /\ db = Idle
    /\ calls = Idle

\* Lines 61-65: no coordinate or one coordinate, the trivial result.
FetchTrivial ==
    /\ osrm.pc = "call"
    /\ BeforeRequest(osrm.count) \in {"return_empty", "return_single"}
    /\ osrm' = [osrm EXCEPT !.pc = "done",
                            !.distances_m = TrivialMatrix(osrm.count),
                            !.durations_s = TrivialMatrix(osrm.count)]
    /\ UNCHANGED <<opt, sel, pack, db, calls>>

\* Lines 67-69.
FetchTooMany ==
    /\ osrm.pc = "call"
    /\ BeforeRequest(osrm.count) = "ValueError"
    /\ osrm' = [osrm EXCEPT !.pc = "raised", !.raised = "ValueError"]
    /\ UNCHANGED <<opt, sel, pack, db, calls>>

\* Lines 71-78: requests.get is called.
FetchRequest ==
    /\ osrm.pc = "call"
    /\ BeforeRequest(osrm.count) = "request"
    /\ osrm' = [osrm EXCEPT !.pc = "requested", !.requests = osrm.requests + 1]
    /\ UNCHANGED <<opt, sel, pack, db, calls>>

\* Lines 79-97: the request fails or the answer is refused.
FetchFail ==
    /\ osrm.pc = "requested"
    /\ \E response \in Responses(osrm.count) :
          /\ ResponseError(response) # ""
          /\ osrm' = [osrm EXCEPT !.pc = "raised", !.raised = ResponseError(response)]
    /\ UNCHANGED <<opt, sel, pack, db, calls>>

\* Line 99: the matrices of the answer are returned as they are.
FetchReturn ==
    /\ osrm.pc = "requested"
    /\ \E response \in Responses(osrm.count) :
          /\ ResponseError(response) = ""
          /\ osrm' = [osrm EXCEPT !.pc = "done",
                                  !.distances_m = response.distances,
                                  !.durations_s = response.durations]
    /\ UNCHANGED <<opt, sel, pack, db, calls>>

OsrmNext ==
    \/ FetchTrivial
    \/ FetchTooMany
    \/ FetchRequest
    \/ FetchFail
    \/ FetchReturn

SpecOsrm == OsrmInit /\ [][OsrmNext]_vars

(***************************************************************************)
(* Properties of fetch_table_matrix (SpecOsrm).                            *)
(***************************************************************************)
\* The matrix [[0.0]], rows and columns counted from 0.
IsSingleZero(matrix) ==
    /\ DOMAIN matrix = {0}
    /\ DOMAIN matrix[0] = {0}
    /\ matrix[0][0] = 0

\* C14: a request is sent to the provider if and only if the coordinate
\* count is between 2 and 100 (and then once); above 100 the call fails with
\* no request sent, and with 0 or 1 coordinates it returns [] or [[0.0]] for
\* both matrices with no request sent.
C14_RequestIffTwoToHundred ==
    osrm.pc # "idle" =>
        /\ osrm.requests \in {0, 1}
        /\ osrm.requests = 1 => (2 <= osrm.count /\ osrm.count <= 100)
        /\ (osrm.pc # "call" /\ 2 <= osrm.count /\ osrm.count <= 100) => osrm.requests = 1
        /\ (osrm.pc # "call" /\ osrm.count > 100) =>
              osrm.pc = "raised" /\ osrm.raised = "ValueError" /\ osrm.requests = 0
        /\ (osrm.pc # "call" /\ osrm.count = 0) =>
              /\ osrm.pc = "done" /\ osrm.requests = 0
              /\ osrm.distances_m = <<>> /\ osrm.durations_s = <<>>
        /\ (osrm.pc # "call" /\ osrm.count = 1) =>
              /\ osrm.pc = "done" /\ osrm.requests = 0
              /\ IsSingleZero(osrm.distances_m) /\ IsSingleZero(osrm.durations_s)

\* The call with exactly 100 coordinates has sent its request and returned.
C14_Witness ==
    /\ osrm.pc = "done"
    /\ osrm.count = 100
    /\ osrm.requests = 1

\* The call with 101 coordinates has failed.
C14_CaseTooMany == osrm.pc = "raised" /\ osrm.count = 101 /\ osrm.requests = 0

(***************************************************************************)
(* optimize_trip_route, _store_route_snapshot and get_trip_route_plan      *)
(* (trips_service.py) on the tables of one trip.                           *)
(*                                                                         *)
(* db holds the rows the three functions read and write:                   *)
(*   trip                 the row of trips the call selects (status        *)
(*                        "missing" when the select finds none), with the  *)
(*                        stops its start/end region preference matches    *)
(*   trip_locations       location_id -> [visit_order, has_coordinates] of *)
(*                        the selected and confirmed stops of the trip     *)
(*   trip_route_plan      the plan rows, in insertion order                *)
(*   trip_route_segments  the segment rows, in insertion order             *)
(* execute_db commits each statement (db.py:62), so every statement is a   *)
(* step of its own.  Distances stay in metres and durations in seconds.    *)
(***************************************************************************)
ThisTrip == 1
OtherTrip == 2

\* An anchor argument that is no number ('abc'): int() raises on it.
Malformed == -4

\* The digits of json text.
DigitText(d) ==
    CASE d = 0 -> "0" [] d = 1 -> "1" [] d = 2 -> "2" [] d = 3 -> "3" [] d = 4 -> "4"
      [] d = 5 -> "5" [] d = 6 -> "6" [] d = 7 -> "7" [] d = 8 -> "8" [] d = 9 -> "9"

DigitValue(c) ==
    CASE c = "0" -> 0 [] c = "1" -> 1 [] c = "2" -> 2 [] c = "3" -> 3 [] c = "4" -> 4
      [] c = "5" -> 5 [] c = "6" -> 6 [] c = "7" -> 7 [] c = "8" -> 8 [] c = "9" -> 9

IsDigit(c) == c \in {"0", "1", "2", "3", "4", "5", "6", "7", "8", "9"}

\* The decimal text of a natural number, as a sequence of characters.
RECURSIVE NumberText(_)
NumberText(k) ==
    IF k < 10 THEN <<DigitText(k)>> ELSE Append(NumberText(k \div 10), DigitText(k % 10))

\* json.dumps of a list of integers: "[101, 102]", as its characters.
RECURSIVE ItemsText(_, _)
ItemsText(ids, p) ==
    IF p > Len(ids) THEN <<>>
    ELSE (IF p > 1 THEN <<",", " ">> ELSE <<>>) \o NumberText(ids[p]) \o ItemsText(ids, p + 1)

json_dumps(ids) == <<"[">> \o ItemsText(ids, 1) \o <<"]">>

\* json.loads of the characters of a list of integers: the value read so
\* far is acc, the number being read is num (None between numbers).
RECURSIVE ParseItems(_, _, _, _)
ParseItems(text, p, acc, num) ==
    IF p > Len(text) THEN acc
    ELSE IF IsDigit(text[p])
    THEN ParseItems(text, p + 1, acc,
                    (IF num = None THEN 0 ELSE 10 * num) + DigitValue(text[p]))
    ELSE ParseItems(text, p + 1, IF num = None THEN acc ELSE Append(acc, num), None)

json_loads(text) == ParseItems(text, 1, <<>>, None)

\* The stops of the trip (selected or confirmed), as location ids.
StopIds(n) == {location_id(i) : i \in 0..(n - 1)}

\* The sequences of all the elements of a set, each once.
Orderings(s) ==
    {f \in [1..Cardinality(s) -> s] : \A p, q \in 1..Cardinality(s) : p # q => f[p] # f[q]}

\* Lines 437-447: the rows ORDER BY visit_order ASC; rows of equal
\* visit_order come in any order.
SelectRows(d) ==
    {[p \in 1..Len(f) |->
        [location_id |-> f[p], has_coordinates |-> d.trip_locations[f[p]].has_coordinates]] :
        f \in {g \in Orderings(DOMAIN d.trip_locations) :
                  \A p, q \in 1..Len(g) :
                      p < q => d.trip_locations[g[p]].visit_order
                                  <= d.trip_locations[g[q]].visit_order}}

\* What the provider measures between two stops (seconds, metres); the seed
\* is the state of the roads at the time of the request.
\* Durations are whole tenths of a minute (multiples of 6 s).
ProviderDuration(seed, a, b) ==
    IF a = b THEN 0
    ELSE 6 * ((Cell(seed, a - 101, b - 101) + 1) * (MaxRows + 2) + (b - 101))

ProviderDistance(seed, a, b) == IF a = b THEN 0 ELSE 100 * ProviderDuration(seed, a, b) + 7

\* A null cell of an answer: in no matrix, or at [i][j] of one of the two.
Holes(n) ==
    {[matrix |-> "none", i |-> 0, j |-> 0]}
        \cup [matrix : {"distances", "durations"}, i : 0..(n - 1), j : 0..(n - 1)]

\* The two matrices of an answer for the coordinates of rows, in row order.
ProviderTable(rows, seed, hole) ==
    LET n == Len(rows)
        Entry(name, measure(_, _, _)) ==
            [i \in 0..(n - 1) |-> [j \in 0..(n - 1) |->
                IF hole.matrix = name /\ hole.i = i /\ hole.j = j THEN None
                ELSE measure(seed, rows[i + 1].location_id, rows[j + 1].location_id)]]
    IN  [distances_m |-> Entry("distances", ProviderDistance),
         durations_s |-> Entry("durations", ProviderDuration)]

\* Lines 484-494: int(x) of an anchor argument looked up in id_to_index; None
\* for no argument, for an id of no row, and for a text int() raises on (the
\* except clause).
hard_idx(rows, x) ==
    IF x = None \/ x = Malformed THEN None
    ELSE IF \E i \in 0..(Len(rows) - 1) : rows[i + 1].location_id = x
    THEN CHOOSE i \in 0..(Len(rows) - 1) : rows[i + 1].location_id = x
    ELSE None

\* Lines 512-520: the indices of the rows a preference matches, ascending.
candidates(rows, matches, hard) ==
    IF hard # None THEN <<>>
    ELSE AscendingFrom({i \in 0..(Len(rows) - 1) : rows[i + 1].location_id \in matches},
                       0, Len(rows))

\* Lines 536-554: the loops from hypothesis k on (k counts the pairs of
\* start_options x end_options in loop order); the set of the best_soft the
\* loops can end with, given those they can have reached.
RECURSIVE soft_loop(_, _, _, _, _, _, _)
soft_loop(durations_s, hs, he, start_options, end_options, k, bests) ==
    IF k >= Len(start_options) * Len(end_options) THEN bests
    ELSE LET s == start_options[(k \div Len(end_options)) + 1]
             e == end_options[(k % Len(end_options)) + 1]
             fs == IF hs # None THEN hs ELSE s
             fe == IF he # None THEN he ELSE e
             skip == \/ s = None /\ e = None
                     \/ s # None /\ e # None /\ s = e
                     \/ fs # None /\ fe # None /\ fs = fe
         IN  IF skip
             THEN soft_loop(durations_s, hs, he, start_options, end_options, k + 1, bests)
             ELSE soft_loop(durations_s, hs, he, start_options, end_options, k + 1,
                            {IF b = <<>> \/ cand.total_cost < b[1].total_cost
                             THEN <<cand>> ELSE b :
                                b \in bests,
                                cand \in optimize_order_from_durations(durations_s, fs, fe)})

\* Lines 478-562: the results the call can select, {Raised} when the base
\* optimization raises ValueError.
select_route(rows, trip, durations_s, start_location_id, end_location_id) ==
    LET hs == hard_idx(rows, start_location_id)
        he0 == hard_idx(rows, end_location_id)
        he == IF hs # None /\ he0 # None /\ hs = he0 THEN None ELSE he0
        start_options == <<None>> \o candidates(rows, trip.start_matches, hs)
        end_options == <<None>> \o candidates(rows, trip.end_matches, he)
        bases == optimize_order_from_durations(durations_s, hs, he)
    IN  IF Raised \in bases THEN {Raised}
        ELSE {SelectResult(base, best_soft) :
                 base \in bases,
                 best_soft \in soft_loop(durations_s, hs, he, start_options, end_options,
                                         0, {<<>>})}

\* Lines 434: (trip.get('trip_status') or 'draft'); NoStatus is NULL.
NoStatus == "NULL"

trip_status(trip) == IF trip.status \in {NoStatus, ""} THEN "draft" ELSE trip.status

\* Line 568 with enumerate counting from 0.
UpdateVisitOrder_from_zero(d, loc_id, idx) ==
    [d EXCEPT !.trip_locations =
        [id \in DOMAIN d.trip_locations |->
            IF id = loc_id THEN [d.trip_locations[id] EXCEPT !.visit_order = idx - 1]
            ELSE d.trip_locations[id]]]

\* UPDATE trip_locations SET visit_order = idx WHERE trip_id AND location_id.
UpdateVisitOrder(d, loc_id, idx) ==
    [d EXCEPT !.trip_locations =
        [id \in DOMAIN d.trip_locations |->
            IF id = loc_id THEN [d.trip_locations[id] EXCEPT !.visit_order = idx]
            ELSE d.trip_locations[id]]]

\* The plan rows of a trip and region.
PlanRows(d, trip_id, region) ==
    {k \in 1..Len(d.trip_route_plan) :
        d.trip_route_plan[k].trip_id = trip_id /\ d.trip_route_plan[k].region = region}

\* SELECT ... FROM trip_route_plan WHERE trip_id AND region, one=True: the
\* first row of the result, of which SQL fixes no order; None without a row.
SelectPlan(d, trip_id, region) ==
    IF PlanRows(d, trip_id, region) = {} THEN {<<>>}
    ELSE {<<d.trip_route_plan[k]>> : k \in PlanRows(d, trip_id, region)}

\* Lines 660-667: UPDATE trip_route_plan ... WHERE plan_id.
UpdatePlan(d, plan_id, order_json, total_distance, total_duration) ==
    [d EXCEPT !.trip_route_plan =
        [k \in 1..Len(d.trip_route_plan) |->
            IF d.trip_route_plan[k].plan_id = plan_id
            THEN [d.trip_route_plan[k] EXCEPT !.optimized_order_json = order_json,
                                              !.total_distance = total_distance,
                                              !.total_duration = total_duration]
            ELSE d.trip_route_plan[k]]]

\* Lines 669-674: INSERT INTO trip_route_plan; plan_id is the next number.
InsertPlan(d, trip_id, region, order_json, total_distance, total_duration) ==
    [d EXCEPT !.trip_route_plan =
        Append(d.trip_route_plan,
               [plan_id |-> Len(d.trip_route_plan) + 1, trip_id |-> trip_id,
                region |-> region, optimized_order_json |-> order_json,
                total_distance |-> total_distance, total_duration |-> total_duration])]

\* Line 677 deleting nothing.
DeleteSegments_skipped(d, trip_id, region) == d

\* Line 677: DELETE FROM trip_route_segments WHERE trip_id AND region.
DeleteSegments(d, trip_id, region) ==
    [d EXCEPT !.trip_route_segments =
        SelectSeq(d.trip_route_segments,
                  LAMBDA row : ~(row.trip_id = trip_id /\ row.region = region))]

\* Lines 692-697: INSERT INTO trip_route_segments.
InsertSegment(d, trip_id, region, from_loc, to_loc, distance, duration) ==
    [d EXCEPT !.trip_route_segments =
        Append(d.trip_route_segments,
               [trip_id |-> trip_id, region |-> region, from_location_id |-> from_loc,
                to_location_id |-> to_loc, distance |-> distance, duration |-> duration])]

\* Lines 638-650: the totals of the snapshot, NULL (None) without a path of
\* two indices; a pair with a null cell counts 0 in both.
RECURSIVE SnapshotSum(_, _, _, _, _)
SnapshotSum(own, other, order_indices, p, acc) ==
    IF p >= Len(order_indices) THEN acc
    ELSE LET a == order_indices[p]
             b == order_indices[p + 1]
         IN  SnapshotSum(own, other, order_indices, p + 1,
                         acc + (IF own[a][b] = None \/ other[a][b] = None THEN 0
                                ELSE own[a][b]))

snapshot_totals(distances_m, durations_s, order_indices) ==
    IF order_indices # <<None>> /\ Len(order_indices) > 1
    THEN [total_distance |-> SnapshotSum(distances_m, durations_s, order_indices, 1, 0),
          total_duration |-> SnapshotSum(durations_s, distances_m, order_indices, 1, 0)]
    ELSE [total_distance |-> None, total_duration |-> None]

\* Lines 682-697: the positions p of the pairs (p, p + 1) of the path, from
\* position from on, that are inserted (a pair with a null cell is skipped).
InsertablePairs(c, from) ==
    {p \in from..(Len(c.order_indices) - 1) :
        /\ c.distances_m[c.order_indices[p]][c.order_indices[p + 1]] # None
        /\ c.durations_s[c.order_indices[p]][c.order_indices[p + 1]] # None}

MinOf(s) == CHOOSE x \in s : \A y \in s : x <= y

\* Lines 574-583: a pair of the route has a null cell in one of the matrices.
UnreachableOnRoute(distances_m, durations_s, order) ==
    \E p \in 1..(Len(order) - 1) :
        \/ distances_m[order[p]][order[p + 1]] = None
        \/ durations_s[order[p]][order[p + 1]] = None

\* Lines 577-583: a total of the returned route.
RECURSIVE RouteSum(_, _, _)
RouteSum(matrix, order, p) ==
    IF p >= Len(order) THEN 0
    ELSE matrix[order[p]][order[p + 1]] + RouteSum(matrix, order, p + 1)

\* Lines 602-622: get_trip_route_plan; <<>> for None.
get_trip_route_plan(d, trip_id) ==
    {IF plan = <<>> THEN <<>>
     ELSE <<[optimized_order |-> json_loads(plan[1].optimized_order_json),
             total_distance |-> plan[1].total_distance,
             total_duration |-> plan[1].total_duration]>> :
        plan \in SelectPlan(d, trip_id, "ALL")}

(***************************************************************************)
(* A call of optimize_trip_route by process p, statement by statement.     *)
(*   load_trip     before the select of the trip (line 426)                *)
(*   load_rows     before the select of the stops (line 437)               *)
(*   fetch         before fetch_table_matrix (line 475)                    *)
(*   persist       in the loop of visit_order updates (line 568), at idx   *)
(*   snap_select   in _store_route_snapshot, before the select (line 654)  *)
(*   snap_upsert   before the update or insert of the plan row (line 659)  *)
(*   snap_delete   before the delete of the segments (line 677)            *)
(*   snap_insert   in the loop of segment inserts (line 682), at pair idx  *)
(*   done          the call returned;  raised: it raised calls[p].raised   *)
(*   loaded        the caller has read the plan with get_trip_route_plan   *)
(***************************************************************************)
Procs == {1, 2}

RouteCall(start_location_id, end_location_id, before) ==
    [pc |-> "load_trip", start_location_id |-> start_location_id,
     end_location_id |-> end_location_id,
     trip |-> <<>>, rows |-> <<>>, distances_m |-> <<>>, durations_s |-> <<>>,
     order |-> <<>>, ordered_location_ids |-> <<>>, order_indices |-> <<None>>,
     idx |-> 0, existing |-> <<>>, raised |-> "", raised_for |-> None,
     returned |-> <<>>, loaded |-> <<>>, before |-> before]

Return(c, total_distance, total_duration) ==
    [c EXCEPT !.pc = "done",
              !.returned = <<[optimized_order |-> c.ordered_location_ids,
                              total_distance |-> total_distance,
                              total_duration |-> total_duration,
                              total_locations |-> Len(c.rows)]>>]

Raise(c, error, loc_id) == [c EXCEPT !.pc = "raised", !.raised = error, !.raised_for = loc_id]

\* Lines 426-435.
RouteLoadTrip(p) ==
    /\ calls[p].pc = "load_trip"
    /\ calls' = [calls EXCEPT ![p] =
          IF db.trip.status = "missing" THEN Raise(@, "LookupError", None)
          ELSE IF trip_status(db.trip) = "finalized" THEN Raise(@, "PermissionError", None)
          ELSE [@ EXCEPT !.pc = "load_rows", !.trip = db.trip]]
    /\ UNCHANGED <<opt, sel, pack, osrm, db>>

\* The first row without latitude or longitude (lines 468-472).
FirstWithoutCoordinates(rows) ==
    rows[MinOf({q \in 1..Len(rows) : ~rows[q].has_coordinates})].location_id

\* Lines 437-473: the stops are read; one stop or none goes straight to the
\* snapshot, a stop without coordinates raises.
RouteLoadRows(p) ==
    /\ calls[p].pc = "load_rows"
    /\ \E rows \in SelectRows(db) :
          calls' = [calls EXCEPT ![p] =
             IF Len(rows) <= 1
             THEN [@ EXCEPT !.pc = "snap_select", !.rows = rows,
                            !.ordered_location_ids =
                                [q \in 1..Len(rows) |-> rows[q].location_id],
                            !.order_indices = <<None>>]
             ELSE IF \E q \in 1..Len(rows) : ~rows[q].has_coordinates
             THEN Raise(@, "ValueError", FirstWithoutCoordinates(rows))
             ELSE [@ EXCEPT !.pc = "fetch", !.rows = rows]]
    /\ UNCHANGED <<opt, sel, pack, osrm, db>>

\* The states of the roads the provider answers from.
RouteSeeds == {0, 3}

\* Lines 475-565: the matrices are fetched and the route is selected.
RouteFetch(p) ==
    /\ calls[p].pc = "fetch"
    /\ \E kind \in ResponseKinds, seed \in RouteSeeds, hole \in Holes(Len(calls[p].rows)) :
          LET c == calls[p]
              table == ProviderTable(c.rows, seed, hole)
              results == select_route(c.rows, c.trip, table.durations_s,
                                      c.start_location_id, c.end_location_id)
          IN  IF BeforeRequest(Len(c.rows)) # "request"
              THEN calls' = [calls EXCEPT ![p] = Raise(c, "ValueError", None)]
              ELSE IF ResponseError([kind |-> kind]) # ""
              THEN calls' = [calls EXCEPT ![p] = Raise(c, ResponseError([kind |-> kind]), None)]
              ELSE IF Raised \in results
              THEN calls' = [calls EXCEPT ![p] =
                      Raise([c EXCEPT !.distances_m = table.distances_m,
                                      !.durations_s = table.durations_s],
                            "ValueError", None)]
              ELSE \E result \in results :
                      calls' = [calls EXCEPT ![p] =
                         [c EXCEPT !.pc = "persist", !.idx = 1,
                                   !.distances_m = table.distances_m,
                                   !.durations_s = table.durations_s,
                                   !.order = result.order,
                                   !.ordered_location_ids =
                                       [q \in 1..Len(result.order) |->
                                           c.rows[result.order[q] + 1].location_id]]]
    /\ UNCHANGED <<opt, sel, pack, osrm, db>>

\* Lines 568-583: one update of visit_order; after the last one the totals
\* are computed, which raises on a null cell of the route.
RoutePersist(p) ==
    /\ calls[p].pc = "persist"
    /\ LET c == calls[p]
       IN  /\ db' = UpdateVisitOrder(db, c.ordered_location_ids[c.idx], c.idx)
           /\ calls' = [calls EXCEPT ![p] =
                 IF c.idx < Len(c.ordered_location_ids) THEN [c EXCEPT !.idx = c.idx + 1]
                 ELSE IF UnreachableOnRoute(c.distances_m, c.durations_s, c.order)
                 THEN Raise(c, "ValueError", None)
                 ELSE [c EXCEPT !.pc = "snap_select", !.order_indices = c.order]]
    /\ UNCHANGED <<opt, sel, pack, osrm>>

\* Lines 635-658.
SnapSelect(p) ==
    /\ calls[p].pc = "snap_select"
    /\ \E existing \in SelectPlan(db, ThisTrip, "ALL") :
          calls' = [calls EXCEPT ![p] = [@ EXCEPT !.pc = "snap_upsert", !.existing = existing]]
    /\ UNCHANGED <<opt, sel, pack, osrm, db>>

\* Lines 659-674.
SnapUpsert(p) ==
    /\ calls[p].pc = "snap_upsert"
    /\ LET c == calls[p]
           totals == snapshot_totals(c.distances_m, c.durations_s, c.order_indices)
           order_json == json_dumps(c.ordered_location_ids)
       IN  db' = IF c.existing # <<>>
                 THEN UpdatePlan(db, c.existing[1].plan_id, order_json,
                                 totals.total_distance, totals.total_duration)
                 ELSE InsertPlan(db, ThisTrip, "ALL", order_json,
                                 totals.total_distance, totals.total_duration)
    /\ calls' = [calls EXCEPT ![p] = [@ EXCEPT !.pc = "snap_delete"]]
    /\ UNCHANGED <<opt, sel, pack, osrm>>

\* Line 597: round(total_duration_s / 60.0, 1), in tenths of a minute (the
\* durations being multiples of 6 s, no half arises).
RoundedMinutes(total_duration_s) == (total_duration_s + 3) \div 6

\* Lines 459-464 and 594-599: the value optimize_trip_route returns once the
\* snapshot is stored; total_distance in metres (round(m / 1000.0, 3) keeps
\* whole metres), total_duration in tenths of a minute.
Returned_from_snapshot(c) ==
    IF c.order_indices = <<None>> THEN Return(c, 0, 0)
    ELSE Return(c, RouteSum(c.distances_m, c.order, 1),
                RoundedMinutes(RouteSum(c.durations_s, c.order, 1)))

\* Lines 677-679: the segments of the trip and region are deleted.
SnapDelete(p) ==
    /\ calls[p].pc = "snap_delete"
    /\ db' = DeleteSegments(db, ThisTrip, "ALL")
    /\ LET c == calls[p]
       IN  calls' = [calls EXCEPT ![p] =
              IF c.order_indices = <<None>> \/ Len(c.order_indices) <= 1
                 \/ InsertablePairs(c, 1) = {}
              THEN Returned_from_snapshot(c)
              ELSE [c EXCEPT !.pc = "snap_insert", !.idx = MinOf(InsertablePairs(c, 1))]]
    /\ UNCHANGED <<opt, sel, pack, osrm>>

\* Lines 682-697: one segment is inserted.
SnapInsert(p) ==
    /\ calls[p].pc = "snap_insert"
    /\ LET c == calls[p]
           a == c.order_indices[c.idx]
           b == c.order_indices[c.idx + 1]
       IN  /\ db' = InsertSegment(db, ThisTrip, "ALL", c.ordered_location_ids[c.idx],
                                  c.ordered_location_ids[c.idx + 1],
                                  c.distances_m[a][b], c.durations_s[a][b])
           /\ calls' = [calls EXCEPT ![p] =
                 IF InsertablePairs(c, c.idx + 1) = {} THEN Returned_from_snapshot(c)
                 ELSE [c EXCEPT !.idx = MinOf(InsertablePairs(c, c.idx + 1))]]
    /\ UNCHANGED <<opt, sel, pack, osrm>>

\* The caller reads the plan back.
LoadPlan(p) ==
    /\ calls[p].pc = "done"
    /\ \E plan \in get_trip_route_plan(db, ThisTrip) :
          calls' = [calls EXCEPT ![p] = [@ EXCEPT !.pc = "loaded", !.loaded = plan]]
    /\ UNCHANGED <<opt, sel, pack, osrm, db>>

RouteNext ==
    \E p \in Procs :
        \/ RouteLoadTrip(p)
        \/ RouteLoadRows(p)
        \/ RouteFetch(p)
        \/ RoutePersist(p)
        \/ SnapSelect(p)
        \/ SnapUpsert(p)
        \/ SnapDelete(p)
        \/ SnapInsert(p)
        \/ LoadPlan(p)

\* The snapshot of another trip, which no call for this trip touches.
OtherPlan ==
    [plan_id |-> 1, trip_id |-> OtherTrip, region |-> "ALL",
     optimized_order_json |-> json_dumps(<<201, 202>>),
     total_distance |-> 900, total_duration |-> 9]

OtherSegment ==
    [trip_id |-> OtherTrip, region |-> "ALL", from_location_id |-> 201,
     to_location_id |-> 202, distance |-> 900, duration |-> 9]

\* The snapshot an earlier optimize call of this trip stored, for the stops
\* 102, 101, 109 the trip had then.
OldPlan ==
    [plan_id |-> 2, trip_id |-> ThisTrip, region |-> "ALL",
     optimized_order_json |-> json_dumps(<<102, 101, 109>>),
     total_distance |-> 1300, total_duration |-> 13]

OldSegments ==
    <<[trip_id |-> ThisTrip, region |-> "ALL", from_location_id |-> 102,
       to_location_id |-> 101, distance |-> 600, duration |-> 6],
      [trip_id |-> ThisTrip, region |-> "ALL", from_location_id |-> 101,
       to_location_id |-> 109, distance |-> 700, duration |-> 7]>>

\* The visit orders the stops of a trip have before a call: the order they
\* were added in, or the reverse of it.
VisitOrders(n) ==
    {[id \in StopIds(n) |-> id - 100], [id \in StopIds(n) |-> n + 101 - id]}

\* The tables before a call: the trip is missing, draft (or of NULL status)
\* or finalized, has up to MaxRows stops, any of them without coordinates,
\* and has an earlier snapshot or none.
Databases(sizes, statuses) ==
    UNION {
        {[trip |-> [status |-> status, start_matches |-> sm, end_matches |-> em],
          trip_locations |->
              [id \in StopIds(n) |->
                  [visit_order |-> vo[id], has_coordinates |-> id \in with_coordinates]],
          trip_route_plan |-> IF old THEN <<OtherPlan, OldPlan>> ELSE <<OtherPlan>>,
          trip_route_segments |->
              IF old THEN <<OtherSegment>> \o OldSegments ELSE <<OtherSegment>>] :
            status \in statuses,
            sm \in {{}, {location_id(n - 1)}} \cap SUBSET StopIds(n),
            em \in {{}, {location_id(0)}} \cap SUBSET StopIds(n),
            vo \in VisitOrders(n),
            with_coordinates \in SUBSET StopIds(n),
            old \in BOOLEAN} :
        n \in sizes}

\* The anchor arguments of a call: none, a text that is no number, a stop of
\* the trip, a location that is no stop of the trip.
StartArguments == {None, Malformed, location_id(0), NotInTrip}

EndArguments == {None, Malformed, location_id(1)}

\* One call of optimize_trip_route and the load of its plan.
RouteInit ==
    /\ opt = Idle
    /\ sel = Idle
    /\ pack = Idle
    /\ osrm = Idle
    /\ db \in Databases(0..MaxRows, {"missing", NoStatus, "draft", "finalized"})
    /\ calls \in {[p \in Procs |-> IF p = 1 THEN RouteCall(s, e, db) ELSE Idle] :
                     s \in StartArguments, e \in EndArguments}

SpecRoute == RouteInit /\ [][RouteNext]_vars

\* Two calls of optimize_trip_route for the same draft trip of RaceRows
\* stops, which has a snapshot, run at the same time; each statement of a
\* call is one step.
RaceRows == 2

RaceDatabases ==
    {d \in Databases({RaceRows}, {"draft"}) :
        /\ \A id \in DOMAIN d.trip_locations :
              /\ d.trip_locations[id].has_coordinates
              /\ d.trip_locations[id].visit_order = id - 100
        /\ d.trip.start_matches = {} /\ d.trip.end_matches = {}
        /\ Len(d.trip_route_plan) = 2}

RaceInit ==
    /\ opt = Idle
    /\ sel = Idle
    /\ pack = Idle
    /\ osrm = Idle
    /\ db \in RaceDatabases
    /\ calls \in {[p \in Procs |-> RouteCall(s[p], None, db)] :
                     s \in [Procs -> {None, location_id(0), location_id(1)}]}

SpecRace == RaceInit /\ [][RouteNext]_vars

(***************************************************************************)
(* Properties of optimize_trip_route (SpecRoute): call 1 is the call.      *)
(***************************************************************************)
HasNull(matrix) == \E i \in DOMAIN matrix : \E j \in DOMAIN matrix[i] : matrix[i][j] = None

AnswerHasNull(c) == HasNull(c.distances_m) \/ HasNull(c.durations_s)

Failed(c) == c.pc = "raised" /\ c.returned = <<>>

Completed(c) == c.pc \in {"done", "loaded"}

\* C15 as stated: when a matrix of the provider's answer has a null cell,
\* wherever it lies, the call fails with an error and returns no route; so
\* no call that has the answer goes on to store or return a route.
C15_AsClaimed ==
    AnswerHasNull(calls[1]) => Failed(calls[1])

\* C15, the part the code keeps: a null cell of the duration matrix, or a
\* null cell of either matrix between consecutive stops of the chosen route,
\* makes the call raise ValueError and return no route.
C15_NullDurationOrRouteCellFails ==
    LET c == calls[1]
    IN  /\ HasNull(c.durations_s) => Failed(c) /\ c.raised = "ValueError"
        /\ c.order # <<>> /\ UnreachableOnRoute(c.distances_m, c.durations_s, c.order)
              => ~Completed(c) /\ c.pc \notin {"snap_select", "snap_upsert", "snap_delete",
                                               "snap_insert"}

C15_Witness ==
    /\ Failed(calls[1])
    /\ calls[1].raised = "ValueError"
    /\ Len(calls[1].rows) = 3
    /\ calls[1].durations_s[0][0] = None

\* The case C15 is wrong about: the distance from a stop to itself is null,
\* the call returns a route and the snapshot of it is stored.
C15_CaseNullOffRoute ==
    /\ calls[1].pc = "loaded"
    /\ Len(calls[1].rows) = 2
    /\ calls[1].distances_m[0][0] = None
    /\ calls[1].returned # <<>>
    /\ calls[1].loaded # <<>>
    /\ calls[1].loaded[1].optimized_order = calls[1].returned[1].optimized_order

\* The stops of the trip that lack a latitude or a longitude.
WithoutCoordinates ==
    {id \in DOMAIN db.trip_locations : ~db.trip_locations[id].has_coordinates}

\* The call has read the stops of an existing draft trip.
RowsRead(c) ==
    /\ c.pc \notin {"load_trip", "load_rows"}
    /\ c.raised \notin {"LookupError", "PermissionError"}

\* C16 as stated: when a stop of the trip lacks a coordinate the call fails
\* with an error naming such a stop and returns no route, for every number
\* of stops, a single stop included.
C16_AsClaimed ==
    RowsRead(calls[1]) /\ WithoutCoordinates # {}
        => /\ Failed(calls[1])
           /\ calls[1].raised = "ValueError"
           /\ calls[1].raised_for \in WithoutCoordinates

\* C16, the part the code keeps: with two stops or more, a stop without a
\* coordinate makes the call raise ValueError naming the first such stop in
\* visit order, and nothing is written.
C16_MissingCoordinateFailsFromTwoStops ==
    LET c == calls[1]
    IN  RowsRead(c) /\ WithoutCoordinates # {} /\ Cardinality(DOMAIN db.trip_locations) >= 2
            => /\ Failed(c)
               /\ c.raised = "ValueError"
               /\ c.raised_for \in WithoutCoordinates
               /\ \A id \in WithoutCoordinates :
                     c.before.trip_locations[c.raised_for].visit_order
                         <= c.before.trip_locations[id].visit_order
               /\ db = c.before

C16_Witness ==
    /\ Failed(calls[1])
    /\ calls[1].raised_for = 103
    /\ WithoutCoordinates = {102, 103}

\* The case C16 is wrong about: the only stop of the trip has no
\* coordinates, the call returns and the plan holds that stop.
C16_CaseSingleStop ==
    /\ calls[1].pc = "loaded"
    /\ WithoutCoordinates = {101}
    /\ calls[1].returned[1].optimized_order = <<101>>
    /\ calls[1].loaded[1].optimized_order = <<101>>

\* An anchor argument of the call is a text that is no number.
MalformedAnchor(c) == c.start_location_id = Malformed \/ c.end_location_id = Malformed

\* The call has gone past the lines that read the anchors (484-494).
AnchorsRead(c) ==
    \/ c.pc \in {"persist", "done", "loaded"}
    \/ c.pc \in {"snap_select", "snap_upsert", "snap_delete", "snap_insert"}
          /\ c.order_indices # <<None>>
    \/ c.pc = "raised" /\ c.durations_s # <<>>

\* C17 as stated: a malformed hard start or hard end anchor is a fatal error
\* reported to the caller; the call computes and stores no route with it.
C17_AsClaimed ==
    MalformedAnchor(calls[1]) /\ AnchorsRead(calls[1])
        => Failed(calls[1]) /\ db = calls[1].before

\* C17, what the code does: the order a call with a malformed anchor
\* selects is an order the same call selects with that anchor left out.
C17_MalformedAnchorAsNoAnchor ==
    LET c == calls[1]
        without(x) == IF x = Malformed THEN None ELSE x
    IN  MalformedAnchor(c) /\ c.order # <<>>
            => \E result \in select_route(c.rows, c.trip, c.durations_s,
                                          without(c.start_location_id),
                                          without(c.end_location_id)) :
                  result # Raised /\ result.order = c.order

C17_Witness ==
    /\ calls[1].pc = "loaded"
    /\ calls[1].start_location_id = Malformed
    /\ Len(calls[1].rows) = 3
    /\ calls[1].loaded[1].optimized_order = calls[1].returned[1].optimized_order
    /\ db # calls[1].before

\* The rows of a table that belong to a trip and region, in table order.
RowsOf(table, trip_id, region) ==
    SelectSeq(table, LAMBDA row : row.trip_id = trip_id /\ row.region = region)

\* The rows of a table that belong to other trips or regions.
RowsNotOf(table, trip_id, region) ==
    SelectSeq(table, LAMBDA row : ~(row.trip_id = trip_id /\ row.region = region))

\* The edge list of the stop-id list of call c: one edge per consecutive
\* pair, with the distance and duration the provider gave for the pair.
NewEdges(c) ==
    [k \in 1..(Len(c.ordered_location_ids) - 1) |->
        [trip_id |-> ThisTrip, region |-> "ALL",
         from_location_id |-> c.ordered_location_ids[k],
         to_location_id |-> c.ordered_location_ids[k + 1],
         distance |-> c.distances_m[c.order[k]][c.order[k + 1]],
         duration |-> c.durations_s[c.order[k]][c.order[k + 1]]]]

\* The totals of the stop-id list of call c: the sums over its edges, NULL
\* for a list of one stop or none.
NewTotal(c, field) ==
    LET RECURSIVE Sum(_)
        Sum(k) == IF k = 0 THEN 0
                  ELSE (IF field = "distance" THEN NewEdges(c)[k].distance
                        ELSE NewEdges(c)[k].duration) + Sum(k - 1)
    IN  IF Len(c.ordered_location_ids) <= 1 THEN None ELSE Sum(Len(NewEdges(c)))

\* C18: once _store_route_snapshot has completed for the trip and region
\* 'ALL', run alone, there is one plan row of the trip and region, it holds
\* the new stop-id list and its totals, the segment rows of the trip and
\* region are exactly the consecutive pairs of the new list in order (no
\* segment of an earlier snapshot is left), the rows of other trips are as
\* before, and get_trip_route_plan returns the new list and totals.
C18_SnapshotReplacedWholesale ==
    LET c == calls[1]
        plans == RowsOf(db.trip_route_plan, ThisTrip, "ALL")
    IN  /\ Completed(c) =>
              /\ Len(plans) = 1
              /\ plans[1].optimized_order_json = json_dumps(c.ordered_location_ids)
              /\ json_loads(plans[1].optimized_order_json) = c.ordered_location_ids
              /\ plans[1].total_distance = NewTotal(c, "distance")
              /\ plans[1].total_duration = NewTotal(c, "duration")
              /\ RowsOf(db.trip_route_segments, ThisTrip, "ALL") = NewEdges(c)
              /\ RowsNotOf(db.trip_route_plan, ThisTrip, "ALL")
                    = RowsNotOf(c.before.trip_route_plan, ThisTrip, "ALL")
              /\ RowsNotOf(db.trip_route_segments, ThisTrip, "ALL")
                    = RowsNotOf(c.before.trip_route_segments, ThisTrip, "ALL")
        /\ c.pc = "loaded" =>
              /\ c.loaded # <<>>
              /\ c.loaded[1].optimized_order = c.ordered_location_ids
              /\ c.loaded[1].total_distance = NewTotal(c, "distance")
              /\ c.loaded[1].total_duration = NewTotal(c, "duration")

\* A trip of three stops that had a snapshot of other stops is optimized and
\* its plan loaded: two new edges, none of the old ones.
C18_Witness ==
    /\ calls[1].pc = "loaded"
    /\ Len(calls[1].ordered_location_ids) = 3
    /\ calls[1].ordered_location_ids # <<101, 102, 103>>
    /\ Len(calls[1].before.trip_route_plan) = 2
    /\ Len(RowsOf(calls[1].before.trip_route_segments, ThisTrip, "ALL")) = 2
    /\ Len(RowsOf(db.trip_route_segments, ThisTrip, "ALL")) = 2
    /\ calls[1].loaded[1].optimized_order = calls[1].ordered_location_ids

\* The trivial snapshot of a trip of one stop replaces an earlier snapshot.
C18_CaseTrivial ==
    /\ calls[1].pc = "loaded"
    /\ calls[1].ordered_location_ids = <<101>>
    /\ Len(calls[1].before.trip_route_plan) = 2
    /\ RowsOf(db.trip_route_segments, ThisTrip, "ALL") = <<>>
    /\ calls[1].loaded[1].total_distance = None

\* C20 as stated: when the call fails with any error, the visit order of the
\* stops and the snapshot with its segments are as they were before the call.
C20_AsClaimed ==
    calls[1].pc = "raised" => db = calls[1].before

\* C20, the part the code keeps: the errors raised before the route is
\* selected (trip not found, trip finalized, missing coordinates, provider
\* failure, null duration) leave every table as before; the error of an
\* unreachable pair of the route leaves the snapshot and its segments as
\* before.
C20_FailureBeforeSelectionWritesNothing ==
    LET c == calls[1]
    IN  c.pc = "raised" =>
            /\ c.order = <<>> => db = c.before
            /\ db.trip_route_plan = c.before.trip_route_plan
            /\ db.trip_route_segments = c.before.trip_route_segments

C20_Witness ==
    /\ calls[1].pc = "raised"
    /\ calls[1].raised = "RuntimeError"
    /\ Len(calls[1].before.trip_route_plan) = 2
    /\ db = calls[1].before

\* The case C20 is wrong about: the distance between two consecutive stops
\* of the selected route is null; the call raises ValueError after it has
\* rewritten the visit order, and the snapshot is the old one.
C20_CasePartialUpdate ==
    /\ calls[1].pc = "raised"
    /\ calls[1].raised = "ValueError"
    /\ calls[1].order # <<>>
    /\ db.trip_locations # calls[1].before.trip_locations
    /\ db.trip_route_plan = calls[1].before.trip_route_plan
    /\ Len(db.trip_route_plan) = 2

(***************************************************************************)
(* Properties of two calls of optimize_trip_route at the same time         *)
(* (SpecRace).                                                             *)
(***************************************************************************)
BothCompleted == \A p \in Procs : Completed(calls[p])

\* The tables hold, for the trip, what call p wrote in full.
PlanOf(p) ==
    LET plans == RowsOf(db.trip_route_plan, ThisTrip, "ALL")
    IN  /\ Len(plans) = 1
        /\ plans[1].optimized_order_json = json_dumps(calls[p].ordered_location_ids)
        /\ plans[1].total_distance = NewTotal(calls[p], "distance")
        /\ plans[1].total_duration = NewTotal(calls[p], "duration")

EdgesOf(p) == RowsOf(db.trip_route_segments, ThisTrip, "ALL") = NewEdges(calls[p])

VisitOrderOf(p) ==
    \A k \in 1..Len(calls[p].ordered_location_ids) :
        db.trip_locations[calls[p].ordered_location_ids[k]].visit_order = k

\* C19 as stated: when both calls have completed, whatever the interleaving
\* of their writes, the plan row, the segments and the visit order each are
\* what one of the two calls wrote in full, and there is one plan row of the
\* trip and region.
C19_AsClaimed ==
    BothCompleted =>
        /\ \E p \in Procs : PlanOf(p)
        /\ \E p \in Procs : EdgesOf(p)
        /\ \E p \in Procs : VisitOrderOf(p)

\* C19, the part the code keeps when the trip already has a plan row: both
\* calls update that one row, so the plan is the one a call wrote in full.
C19_PlanIsOneCallsPlan ==
    BothCompleted => \E p \in Procs : PlanOf(p)

C19_Witness ==
    /\ BothCompleted
    /\ calls[1].ordered_location_ids = <<101, 102>>
    /\ calls[2].ordered_location_ids = <<102, 101>>
    /\ PlanOf(2) /\ EdgesOf(2) /\ VisitOrderOf(2)

\* The case C19 is wrong about, segments: the calls delete one after the
\* other and then insert one after the other; the segments of both routes
\* are stored.
C19_CaseMixedEdges ==
    /\ BothCompleted
    /\ calls[1].ordered_location_ids = <<101, 102>>
    /\ calls[2].ordered_location_ids = <<102, 101>>
    /\ Len(RowsOf(db.trip_route_segments, ThisTrip, "ALL")) = 2

\* The case C19 is wrong about, visit order: the updates of the two calls
\* alternate; both stops end with the same visit order, which no call wrote.
C19_CaseMixedVisitOrder ==
    /\ BothCompleted
    /\ db.trip_locations[101].visit_order = db.trip_locations[102].visit_order

(***************************************************************************)
(* Properties of nearest_neighbor_path and two_opt_improve (SpecOpt).      *)
(***************************************************************************)
\* The nodes not yet in the path before its position p is filled.
UnvisitedBefore(p) == (0..(opt.n - 1)) \ {opt.order[q] : q \in 1..(p - 1)}

\* The nodes position p of the path is chosen from.
ChoicesAt(p) == Choices(UnvisitedBefore(p), opt.end)

InNearestNeighbour == opt.pc = "nn"

\* C21 as stated: the path starts at start and each next element is the
\* choice of minimum edge cost from the tail, the lowest index among the
\* choices of that minimum cost; so a matrix and anchors give one route.
C21_AsClaimed ==
    InNearestNeighbour =>
        /\ opt.order[1] = opt.start
        /\ \A p \in 2..Len(opt.order) :
              opt.order[p] = FirstMin(ChoicesAt(p), opt.cost[opt.order[p - 1]])

\* C21, the part the code keeps: the path starts at start, each next element
\* is an unvisited index of minimum edge cost from the tail, and the end is
\* not chosen while another index is unvisited.
C21_GreedyMinimumCost ==
    InNearestNeighbour =>
        /\ opt.order[1] = opt.start
        /\ \A p \in 2..Len(opt.order) :
              /\ opt.order[p] \in UnvisitedBefore(p)
              /\ \A k \in ChoicesAt(p) :
                    opt.cost[opt.order[p - 1]][opt.order[p]] <= opt.cost[opt.order[p - 1]][k]
              /\ opt.order[p] = opt.end /\ opt.end # None => UnvisitedBefore(p) = {opt.end}

C21_Witness ==
    /\ InNearestNeighbour
    /\ opt.unvisited = {}
    /\ opt.n = 4
    /\ opt.end = 1
    /\ opt.order[4] = 1
    /\ opt.cost[opt.order[2]][1] < opt.cost[opt.order[2]][opt.order[3]]

\* The case C21 is wrong about: two choices have the same minimum cost and
\* the one of the higher index is taken.
C21_CaseHigherIndexOnTie ==
    /\ InNearestNeighbour
    /\ \E p \in 2..Len(opt.order) :
          \E k \in ChoicesAt(p) :
              /\ k < opt.order[p]
              /\ opt.cost[opt.order[p - 1]][k] = opt.cost[opt.order[p - 1]][opt.order[p]]

\* The reversal (i..k) of the path lowers its cost.
Lowers(best, i, k) ==
    path_cost(opt.cost, Candidate(best, i, k)) < path_cost(opt.cost, best)

\* (i, k) is tried before (j, m) by the two loops.
TriedBefore(i, k, j, m) == i < j \/ (i = j /\ k < m)

\* The pairs (i, k) the loops of a scan go through.
ScanRange ==
    {pr \in (0..(opt.n - 3)) \X (1..(opt.n - 2)) :
        /\ pr[1] >= (IF opt.fixed_start THEN 1 ELSE 0)
        /\ pr[2] > pr[1]}

\* A step that is one scan of two_opt_improve.
IsScan == opt.pc = "two_opt" /\ opt'.pc = "two_opt" /\ opt'.iters = opt.iters + 1

\* The scan accepted the first reversal that lowers the cost, and only it.
AcceptedFirst ==
    \E pr \in ScanRange :
        /\ Lowers(opt.best, pr[1], pr[2])
        /\ \A q \in ScanRange :
              TriedBefore(q[1], q[2], pr[1], pr[2]) => ~Lowers(opt.best, q[1], q[2])
        /\ opt'.best = Candidate(opt.best, pr[1], pr[2])
        /\ opt'.improved

\* The scan found no reversal that lowers the cost and left the path.
AcceptedNone ==
    /\ \A q \in ScanRange : ~Lowers(opt.best, q[1], q[2])
    /\ opt'.best = opt.best
    /\ ~opt'.improved

\* C22: two_opt_improve terminates: it makes at most max_iter scans, a scan
\* accepts the first reversal that lowers the cost (i ascending, then k
\* ascending) and no other, or none when no reversal lowers it; after a scan
\* that accepted none the loop is left, and the call returns.
C22_TwoOptTerminates ==
    /\ [](opt.pc = "two_opt" => opt.iters <= max_iter)
    /\ [][IsScan => AcceptedFirst \/ AcceptedNone]_vars
    /\ [][opt.pc = "two_opt" /\ ~opt.improved => opt'.pc = "done" /\ opt'.result.order = opt.best]_vars
    /\ (opt.pc = "two_opt" ~> opt.pc = "done")

\* Two scans each accepted a reversal and a third accepted none.
C22_Witness ==
    /\ opt.pc = "done"
    /\ opt.n = 4
    /\ opt.iters = 3
    /\ ~opt.improved
    /\ opt.result.total_cost < path_cost(opt.cost, opt.order)

(***************************************************************************)
(* Properties of the hypothesis loops of the selector (SpecSel).           *)
(***************************************************************************)
Elements(seq) == {seq[p] : p \in 1..Len(seq)}

\* The anchor a hypothesis resolves to: the hard anchor if there is one,
\* else the soft candidate.
Resolved(hard, soft) == IF hard # None THEN hard ELSE soft

\* The hypotheses to evaluate: the pairs of {no soft start, each soft-start
\* candidate} x {no soft end, each soft-end candidate}, but for the pair of
\* none and none and the pairs whose resolved start is their resolved end.
Hypotheses ==
    {h \in Elements(sel.start_options) \X Elements(sel.end_options) :
        /\ ~(h[1] = None /\ h[2] = None)
        /\ LET fs == Resolved(sel.hard_start_idx, h[1])
               fe == Resolved(sel.hard_end_idx, h[2])
           IN  ~(fs # None /\ fe # None /\ fs = fe)}

EvaluatedPairs == {<<sel.evaluated[p].s, sel.evaluated[p].e>> : p \in 1..Len(sel.evaluated)}

\* C23: the hypotheses evaluated are those of Hypotheses, each once, when
\* the loops are over, and part of them before; each is run with its
\* resolved anchors, which differ; best_soft is the result of one of them,
\* of a cost no other evaluated result is below (None when none was
\* evaluated).
C23_EvaluatesExactlyTheHypotheses ==
    sel.pc \in {"loop", "select", "done"} =>
        /\ EvaluatedPairs \subseteq Hypotheses
        /\ Cardinality(EvaluatedPairs) = Len(sel.evaluated)
        /\ sel.pc \in {"select", "done"} => EvaluatedPairs = Hypotheses
        /\ \A p \in 1..Len(sel.evaluated) :
              LET h == sel.evaluated[p]
              IN  /\ h.fs = Resolved(sel.hard_start_idx, h.s)
                  /\ h.fe = Resolved(sel.hard_end_idx, h.e)
                  /\ ~(h.fs # None /\ h.fe # None /\ h.fs = h.fe)
                  /\ h.cand \in optimize_order_from_durations(sel.durations_s, h.fs, h.fe)
        /\ sel.best_soft = <<>> <=> sel.evaluated = <<>>
        /\ sel.best_soft # <<>> =>
              /\ \E p \in 1..Len(sel.evaluated) : sel.evaluated[p].cand = sel.best_soft[1]
              /\ \A p \in 1..Len(sel.evaluated) :
                    sel.best_soft[1].total_cost <= sel.evaluated[p].cand.total_cost

\* A hard start that is also the one soft-end candidate beside another: of
\* the two hypotheses with a soft end, only the other one is evaluated.
C23_Witness ==
    /\ sel.pc = "done"
    /\ sel.n = 4
    /\ sel.hard_start_idx = 2
    /\ sel.end_options = <<None, 1, 2>>
    /\ EvaluatedPairs = {<<None, 1>>}
    /\ sel.best_soft # <<>>

\* Two soft starts and two soft ends: of the eight hypotheses other than
\* none and none, the one with the same stop at both ends is left out.
C23_CaseSevenOfEight ==
    /\ sel.pc = "select"
    /\ sel.start_options = <<None, 0, 1>>
    /\ sel.end_options = <<None, 1, 3>>
    /\ Len(sel.evaluated) = 7

(***************************************************************************)
(* Properties of the close of a day (SpecPack): between DayClose and the   *)
(* next DayOpen, current_day_locs holds the stops of the day just closed,  *)
(* each with the visit minutes it was packed with and those it has now.    *)
(***************************************************************************)
DayJustClosed == pack.pc = "outer" /\ pack.current_day_locs # <<>>

PackedVisit == SumOver(pack.current_day_locs, "packed_visit", 1)

PackedActive == pack.current_day_travel + PackedVisit

Slack == target_active_min(pack.pace_key) - PackedActive

StretchDue == Slack > Tenths(15) /\ PackedVisit > 0

\* The stretch factor as a fraction: min(1.5, (visit_total + slack) / visit_total).
FactorCapped == 2 * (PackedVisit + Slack) >= 3 * PackedVisit

FactorNum == IF FactorCapped THEN 3 ELSE PackedVisit + Slack

FactorDen == IF FactorCapped THEN 2 ELSE PackedVisit

\* The visit minutes of every stop are its packed minutes times the factor,
\* to the nearest tenth of a minute; travel is as packed and the active
\* minutes are travel plus the stretched visit minutes.
StretchedByFactor ==
    /\ \A p \in 1..Len(pack.current_day_locs) :
          LET item == pack.current_day_locs[p]
              diff == item.visit * FactorDen - item.packed_visit * FactorNum
          IN  /\ 2 * diff <= FactorDen /\ 2 * diff >= -FactorDen
              /\ 2 * item.visit <= 3 * item.packed_visit
    /\ pack.current_day_travel = SumOver(pack.current_day_locs, "travel", 1)
    /\ pack.current_day_visit = SumOver(pack.current_day_locs, "visit", 1)
    /\ pack.current_day_active = pack.current_day_travel + pack.current_day_visit

LeftAsPacked ==
    /\ \A p \in 1..Len(pack.current_day_locs) :
          pack.current_day_locs[p].visit = pack.current_day_locs[p].packed_visit
    /\ pack.current_day_visit = PackedVisit
    /\ pack.current_day_active = PackedActive

\* C24 as stated: a day is stretched exactly when its slack is above 15 and
\* its visit total above 0; a stretched day has every visit multiplied by
\* the factor min(1.5, (visit_total + slack) / visit_total), no visit above
\* 1.5 times its packed minutes and active minutes that do not exceed the
\* target; another day is left as packed.
C24_AsClaimed ==
    DayJustClosed =>
        IF StretchDue
        THEN StretchedByFactor /\ pack.current_day_active <= target_active_min(pack.pace_key)
        ELSE LeftAsPacked

\* C24 amended: as stated, but the active minutes of a stretched day exceed
\* the target by no more than the rounding of the visits to a tenth of a
\* minute allows: 0.05 minute per stop of the day.
C24_StretchedWithinRoundingOfTarget ==
    DayJustClosed =>
        IF StretchDue
        THEN /\ StretchedByFactor
             /\ 2 * (pack.current_day_active - target_active_min(pack.pace_key))
                   <= Len(pack.current_day_locs)
        ELSE LeftAsPacked

\* Four heritage stops and an adventure stop at packed pace, no travel: the
\* visits of 76 and 153 become 99.8 and 200.9 and the active minutes 600.1.
C24_Witness ==
    /\ DayJustClosed
    /\ StretchDue
    /\ ~FactorCapped
    /\ pack.pace_key = "packed"
    /\ Len(pack.current_day_locs) = 5
    /\ \A p \in 1..4 : pack.current_day_locs[p].packed_visit = 760
                        /\ pack.current_day_locs[p].visit = 998
    /\ pack.current_day_locs[5].packed_visit = 1530
    /\ pack.current_day_locs[5].visit = 2009
    /\ pack.current_day_active = 6001
    /\ target_active_min(pack.pace_key) = 6000

\* A day stretched by the capped factor 1.5.
C24_CaseCapped ==
    /\ DayJustClosed
    /\ StretchDue
    /\ FactorCapped
    /\ Len(pack.current_day_locs) = 2
    /\ \A p \in 1..2 : 2 * pack.current_day_locs[p].visit = 3 * pack.current_day_locs[p].packed_visit

(***************************************************************************)
(* Travel minutes of the placed stops (SpecPack).  The segment field of an *)
(* input stop is the snapshot's duration from the input stop before it, 0  *)
(* when the snapshot has no such segment.                                  *)
(***************************************************************************)
\* The stops of the days closed so far, each with its travel minutes.
PlacedDays ==
    [d \in 1..Len(pack.days_global) |->
        [p \in 1..Len(pack.days_global[d].locations) |->
            [location_id |-> pack.days_global[d].locations[p].location_id,
             travel |-> pack.days_global[d].locations[p].estimated_travel_from_prev_min]]]

Placing == pack.pc \in {"outer", "inner", "done"}

FirstOfLaterDay(d) == d > 1 /\ d <= Len(PlacedDays) /\ PlacedDays[d] # <<>>

\* C25 as stated: the travel minutes of a stop are the snapshot segment from
\* the stop placed just before it, and the first stop of every day has
\* travel minutes 0, like every stop whose segment is missing.
C25_AsClaimed ==
    Placing =>
        \A d \in 1..Len(PlacedDays) : \A p \in 1..Len(PlacedDays[d]) :
            LET s == PlacedDays[d][p]
            IN  s.travel = IF p = 1 THEN 0 ELSE pack.all_locs[s.location_id].segment

\* What the code keeps, also for a stop moved by the equalization: the travel minutes of a stop are the snapshot
\* segment from the stop placed just before it, across the boundary of two
\* days too; the first stop of day 1 has travel minutes 0.
C25_TravelIsSegmentFromPreviousStop ==
    Placing =>
        \A d \in 1..Len(PlacedDays) : \A p \in 1..Len(PlacedDays[d]) :
            LET s == PlacedDays[d][p]
            IN  s.travel = IF d = 1 /\ p = 1 THEN 0
                           ELSE pack.all_locs[s.location_id].segment

\* The first stop of day 2 carries the 19.9 minutes from the last stop of
\* day 1.
C25_Witness ==
    /\ Packing
    /\ pack.shifted = <<>>
    /\ FirstOfLaterDay(2)
    /\ PlacedDays[2][1].travel = Tenths(199)
    /\ PlacedDays[2][1].location_id = PlacedDays[1][Len(PlacedDays[1])].location_id + 1

(***************************************************************************)
(* Aggregates of the returned days against their stop lists (SpecPack).    *)
(***************************************************************************)
ExposedTravel(day) == SumOver(day.locations, "estimated_travel_from_prev_min", 1)

ExposedVisit(day) == SumOver(day.locations, "estimated_visit_min", 1)

SumsAgree(day) ==
    /\ day.active_min = day.travel_min + day.visit_min
    /\ day.total_min = day.active_min + day.overhead_min
    /\ day.overhead_min = Tenths(120)

\* A day whose stops were stretched to visit minutes that are not whole.
StretchedToFractions(day) ==
    \E p \in 1..Len(day.locations) :
        day.locations[p].estimated_visit_min # day.locations[p].packed_visit

EqualizedDays == (1..Len(pack.days_global)) \ UnchangedDays

\* C26 as stated: for every returned day travel_min and visit_min are the
\* sums of the travel and visit minutes exposed per stop, active_min is
\* travel_min + visit_min and total_min is active_min + overhead_min, with
\* overhead_min 120.
C26_AsClaimed ==
    Returned =>
        \A d \in 1..Len(pack.days_global) :
            LET day == pack.days_global[d]
            IN  /\ day.travel_min = ExposedTravel(day)
                /\ day.visit_min = ExposedVisit(day)
                /\ SumsAgree(day)

\* What the code keeps: the sums of the aggregates agree for every returned
\* day; visit_min is the sum of the exposed visit minutes for the two days
\* recalculated by the equalization and for every day that was not
\* stretched; for a stretched day the exposed visit minutes are the
\* stretched ones cut to whole minutes, so visit_min is their sum or more,
\* by less than one minute per stop.
C26_SumsAgreeAndVisitWithinTruncation ==
    Returned =>
        \A d \in 1..Len(pack.days_global) :
            LET day == pack.days_global[d]
            IN  /\ SumsAgree(day)
                /\ day.visit_min >= ExposedVisit(day)
                /\ day.visit_min - ExposedVisit(day) < Tenths(Len(day.locations))
                /\ (d \in EqualizedDays \/ ~StretchedToFractions(day))
                      => day.visit_min = ExposedVisit(day)
                /\ \A p \in 1..Len(day.locations) :
                      day.locations[p].estimated_visit_min % 10 = 0

\* A returned day with visit_min 600.1 whose five stops expose 99, 99, 99,
\* 99 and 200 minutes.
C26_Witness ==
    /\ Returned
    /\ Len(pack.days_global) = 1
    /\ pack.days_global[1].visit_min = 6001
    /\ ExposedVisit(pack.days_global[1]) = 5960
    /\ Len(pack.days_global[1].locations) = 5

\* Two days recalculated by the equalization, the earlier of which had been
\* stretched: their aggregates are the sums of the exposed minutes.
C26_CaseEqualized ==
    /\ Returned
    /\ pack.shifted # <<>>
    /\ \A d \in EqualizedDays :
          pack.days_global[d].visit_min = ExposedVisit(pack.days_global[d])
    /\ \E d \in EqualizedDays : StretchedToFractions(pack.days_global[d])

(***************************************************************************)
(* Termination of the day packing (LivePack).                              *)
(***************************************************************************)
Finished == pack.pc \in {"done", "raised"}

\* The days of the returned regions, in the order of the output.
RECURSIVE OutputDays(_, _)
OutputDays(groups, g) ==
    IF g > Len(groups) THEN 0 ELSE Len(groups[g].days) + OutputDays(groups, g + 1)

\* The first step of an opened day commits the head of the queue.
FirstStepConsumes ==
    (pack.pc = "inner" /\ pack.current_day_locs = <<>>)
        => /\ pack'.pc = "inner"
           /\ pack'.temp_locs_queue = Tail(pack.temp_locs_queue)
           /\ Len(pack'.current_day_locs) = 1

QueueShrinks ==
    pack.pc \in {"outer", "inner"}
        => Len(pack'.temp_locs_queue) <= Len(pack.temp_locs_queue)

DaysNumbered ==
    /\ Len(pack.days_global) <= Len(pack.all_locs)
    /\ \A d \in 1..Len(pack.days_global) :
          /\ pack.days_global[d].day_number = d
          /\ pack.days_global[d].locations # <<>>
    /\ Returned => /\ pack.total_days = Len(pack.days_global)
                   /\ pack.total_days = OutputDays(pack.regions_output, 1)

AllDaysBuilt == pack.pc = "outer" /\ pack.temp_locs_queue = <<>>

\* C28: the stops of day 1, day 2, ..., day D, one after the other, are the
\* input stops in input order: while the days are filled (with the open day
\* and the queue behind them), once all days are built, and in the
\* itinerary returned, whether or not the equalization moved a stop.
C28_VisitingOrderPreserved ==
    /\ ConsumedInOrder
    /\ (AllDaysBuilt \/ Returned) => DayIds(pack.days_global, 1) = InputIds
    /\ Returned => \A d \in 1..Len(pack.days_global) :
                      pack.days_global[d].day_number = d

\* The equalization moved stop 4 of five from day 1 to the front of day 2.
C28_Witness ==
    /\ Returned
    /\ Len(pack.all_locs) = 5
    /\ Len(pack.days_global) = 2
    /\ pack.shifted # <<>>
    /\ pack.shifted[1].location_id = 4
    /\ DayIds(<<pack.days_global[1]>>, 1) = <<1, 2, 3>>
    /\ DayIds(<<pack.days_global[2]>>, 1) = <<4, 5>>

(***************************************************************************)
(* The persisted route against the returned one, and what the itinerary    *)
(* builder reads of it (SpecRoute).                                        *)
(***************************************************************************)
\* Lines 240-248 of build_trip_itinerary: the stop ids of the trip by
\* ascending visit_order; one sequence per order the database may give to
\* rows of equal visit_order.
all_locs_of(d) ==
    {[p \in 1..Len(rows) |-> rows[p].location_id] : rows \in SelectRows(d)}

\* Lines 253-264: the keys of seg_map, the (from, to) pairs of the segment
\* rows of the trip and region 'ALL'.
seg_map_keys(d) ==
    LET rows == RowsOf(d.trip_route_segments, ThisTrip, "ALL")
    IN  {<<rows[k].from_location_id, rows[k].to_location_id>> : k \in 1..Len(rows)}

Succeeded(c) == Completed(c) /\ c.returned # <<>> /\ Len(c.rows) >= 2

ReturnedOrder(c) == c.returned[1].optimized_order

\* C29: after a successful optimize_trip_route on two stops or more, run
\* alone: the k-th stop of the returned order has visit_order k, the plan
\* row holds the returned order, the segment rows are one per consecutive
\* pair of it, in order; the query of build_trip_itinerary gives the stops
\* in the returned order and nothing else, and seg_map has a key for every
\* consecutive pair of them.
C29_PersistedMatchesReturned ==
    LET c == calls[1]
        order == ReturnedOrder(c)
        plans == RowsOf(db.trip_route_plan, ThisTrip, "ALL")
        segments == RowsOf(db.trip_route_segments, ThisTrip, "ALL")
    IN  Succeeded(c) =>
            /\ Len(order) = Len(c.rows)
            /\ \A k \in 1..Len(order) : db.trip_locations[order[k]].visit_order = k
            /\ Len(plans) = 1
            /\ json_loads(plans[1].optimized_order_json) = order
            /\ Len(segments) = Len(order) - 1
            /\ \A k \in 1..Len(segments) :
                  /\ segments[k].from_location_id = order[k]
                  /\ segments[k].to_location_id = order[k + 1]
            /\ all_locs_of(db) = {order}
            /\ \A k \in 1..(Len(order) - 1) : <<order[k], order[k + 1]>> \in seg_map_keys(db)

\* Three stops are put in an order other than the one they were read in;
\* the trip had a snapshot of other stops before.
C29_Witness ==
    /\ Succeeded(calls[1])
    /\ Len(ReturnedOrder(calls[1])) = 3
    /\ ReturnedOrder(calls[1])
          # [p \in 1..3 |-> calls[1].rows[p].location_id]
    /\ Len(RowsOf(calls[1].before.trip_route_segments, ThisTrip, "ALL")) = 2
    /\ all_locs_of(calls[1].before) # {ReturnedOrder(calls[1])}
    /\ all_locs_of(db) = {ReturnedOrder(calls[1])}

(***************************************************************************)
(* add_location_to_trip and remove_location_from_trip on one trip.  db     *)
(* holds the trip_locations rows of the trip by location id; removed is    *)
(* not a column: it records that remove_location_from_trip updated the row.*)
(***************************************************************************)
TripLocationIds == 1..MaxLocations

\* A row as the suggestion endpoints insert it: status 'suggested', no
\* visit_order.
SuggestedRow == [status |-> "suggested", visit_order |-> None, removed |-> FALSE]

\* COALESCE(MAX(visit_order), 0) over the rows of the trip.
max_order(rows) ==
    LET orders == {rows[id].visit_order : id \in DOMAIN rows} \ {None}
    IN  IF orders = {} THEN 0 ELSE CHOOSE mx \in orders : \A o \in orders : o <= mx

add_location_to_trip(rows, loc_id) ==
    IF loc_id \in DOMAIN rows
    THEN [rows EXCEPT ![loc_id].status = "selected"]
    ELSE [id \in DOMAIN rows \cup {loc_id} |->
            IF id = loc_id
            THEN [status |-> "selected", visit_order |-> max_order(rows) + 1,
                  removed |-> FALSE]
            ELSE rows[id]]

remove_location_from_trip(rows, loc_id) ==
    [id \in DOMAIN rows |->
        IF id = loc_id
        THEN [status |-> "suggested", visit_order |-> None, removed |-> TRUE]
        ELSE rows[id]]

TripInit ==
    /\ db \in {[pc |-> "trip", trip_locations |-> [id \in ids |-> SuggestedRow]] :
                  ids \in SUBSET TripLocationIds}
    /\ opt = Idle
    /\ sel = Idle
    /\ pack = Idle
    /\ osrm = Idle
    /\ calls = Idle

AddLocation ==
    /\ db.pc = "trip"
    /\ \E loc_id \in TripLocationIds :
          db' = [db EXCEPT !.trip_locations = add_location_to_trip(@, loc_id)]
    /\ UNCHANGED <<opt, sel, pack, osrm, calls>>

RemoveLocation ==
    /\ db.pc = "trip"
    /\ \E loc_id \in TripLocationIds :
          db' = [db EXCEPT !.trip_locations = remove_location_from_trip(@, loc_id)]
    /\ UNCHANGED <<opt, sel, pack, osrm, calls>>

TripNext == AddLocation \/ RemoveLocation

SpecTrip == TripInit /\ [][TripNext]_vars

(***************************************************************************)
(* Properties of the visit orders of a trip (SpecTrip).                    *)
(***************************************************************************)
Selected == {id \in DOMAIN db.trip_locations : db.trip_locations[id].status = "selected"}

\* C30 as stated: after any sequence of additions and removals every
\* selected location of the trip has a visit_order and no two selected
\* locations have the same one.
C30_AsClaimed ==
    db.pc = "trip" =>
        /\ \A id \in Selected : db.trip_locations[id].visit_order # None
        /\ \A id, other \in Selected :
              id # other => db.trip_locations[id].visit_order
                               # db.trip_locations[other].visit_order

\* What the code keeps: the visit orders that are set are distinct and lie
\* in 1..number of rows; a location that is not selected, or that was ever
\* removed, has none.
C30_SetVisitOrdersDistinct ==
    db.pc = "trip" =>
        /\ \A id, other \in DOMAIN db.trip_locations :
              (id # other /\ db.trip_locations[id].visit_order # None)
                  => db.trip_locations[id].visit_order
                        # db.trip_locations[other].visit_order
        /\ \A id \in DOMAIN db.trip_locations :
              LET row == db.trip_locations[id]
              IN  /\ row.status = "suggested" => row.visit_order = None
                  /\ row.removed => row.visit_order = None
                  /\ row.visit_order # None
                        => row.visit_order \in 1..Cardinality(DOMAIN db.trip_locations)

\* Location 1 was added (visit_order 1), removed and added again: it is
\* selected without a visit_order, next to location 2 with visit_order 2.
C30_Witness ==
    /\ db.pc = "trip"
    /\ DOMAIN db.trip_locations = {1, 2}
    /\ db.trip_locations[1] = [status |-> "selected", visit_order |-> None, removed |-> TRUE]
    /\ db.trip_locations[2] = [status |-> "selected", visit_order |-> 2, removed |-> FALSE]

=============================================================================
